---- MODULE Spec2Model ----
(***************************************************************************)
(* The minute-by-minute match simulation of                                *)
(* mobile/src-tauri/src/simulation/engine.rs (SimulationEngine).           *)
(*                                                                         *)
(* Numbers.  ball.x / ball.y are f64 in the source; every draw used here   *)
(* is a whole number, so they are integers.  Probabilities, attribute      *)
(* values and fatigue are f64 in [0,1] or [0,20]; they are kept in         *)
(* millionths (Unit = 1.0).  A call of rng.gen::<f64>() is a draw from a   *)
(* small set of values in 0 .. Unit-1.                                     *)
(*                                                                         *)
(* Names.  A player's display name (format!("{} {}", first, last)) is      *)
(* stood for by the player's id.                                           *)
(*                                                                         *)
(* ticks.  simulate() only pushes to its local Vec `ticks`, takes its      *)
(* length, counts the ticks with possession == "home" and overwrites the   *)
(* stats of the last one.  The variable `ticks` keeps what those uses and  *)
(* the properties read: the length, the last tick, the count of home       *)
(* possession, the (minute, kind) of every tick in order, the number of    *)
(* events of every (event_type, team) and the number of card events of     *)
(* every (event_type, primary_player) over all ticks.  The scenarios whose *)
(* properties read the returned vector itself (the host command, two runs  *)
(* compared) also keep it whole, in ticks.all.                             *)
(*                                                                         *)
(* The module also covers get_lineup_data() and the host command           *)
(* simulate_match of mobile/src-tauri/src/commands/mod.rs, which runs the  *)
(* engine, emits its ticks and saves the result.                           *)
(***************************************************************************)
EXTENDS Integers, Sequences, FiniteSets, TLC

VARIABLES
    home_squad, away_squad,       \* Vec<Player>, fixed at construction
    home_attrs, away_attrs,       \* HashMap<i64, PlayerAttributes>
    home_formation, away_formation, \* Option<Formation>
    score,                        \* Score {home, away}
    stats,                        \* MatchStats {home, away}
    ball,                         \* BallPosition {x, y}
    possession,                   \* "home" | "away"
    zone,
    home_starters, away_starters,
    player_fatigue,               \* HashMap<i64, f64>
    player_yellow_cards,          \* HashMap<i64, i64>
    player_sent_off,              \* HashMap<i64, bool>
    ticks,                        \* simulate(): the tick vector (see above)
    injury_time_h1, injury_time_h2,
    minute,                       \* simulate(): the loop variable
    side, events,                 \* simulate_minute(): locals
    pc,                           \* position in simulate()
    step,                         \* position in simulate_minute()
    lineup,                       \* the LineupData last returned by get_lineup_data()
    cmd,                          \* simulate_match: position, loop index, return value
    window,                       \* the notifications passed to window.emit, in order
    db,                           \* the match row and the match_events rows
    first_run                     \* the ticks returned by an earlier engine on these inputs

inputs == <<home_squad, away_squad, home_attrs, away_attrs, home_formation, away_formation>>
outside == <<lineup, cmd, window, db, first_run>>
engine == <<score, stats, ball, possession, zone, home_starters, away_starters,
            player_fatigue, player_yellow_cards, player_sent_off>>
locals == <<ticks, injury_time_h1, injury_time_h2, minute, side, events, pc, step>>
vars == <<inputs, engine, locals, outside>>

----------------------------------------------------------------------------
(* Fixed-point unit and small helpers *)

Unit == 1000000

Min(a, b) == IF a < b THEN a ELSE b
Max(a, b) == IF a > b THEN a ELSE b
Clamp(v, lo, hi) == Max(lo, Min(v, hi))

\* HashMap::get(..).copied().unwrap_or(d)
MapGet(m, k, d) == IF k \in DOMAIN m THEN m[k] ELSE d
\* HashMap::insert
MapPut(m, k, v) == [x \in (DOMAIN m) \cup {k} |-> IF x = k THEN v ELSE m[x]]

\* Iterator::take(n)
Take(s, n) == SubSeq(s, 1, Min(n, Len(s)))

RECURSIVE FilterSeq(_, _)
FilterSeq(s, keep) ==
    IF s = <<>> THEN <<>>
    ELSE IF Head(s).id \in keep THEN <<Head(s)>> \o FilterSeq(Tail(s), keep)
    ELSE FilterSeq(Tail(s), keep)

Range(s) == {s[i] : i \in 1..Len(s)}

Sides == {"home", "away"}
NoPlayer == 0

----------------------------------------------------------------------------
(* Program constants *)

Starters == 11
PitchLength == 100
PitchWidth == 68
CenterX == 50
CenterY == 34
DefaultAttr == 10

\* The clock of simulate(): 45-minute halves, full time at 90, fatigue after
\* minute 60, injury time 1..=4 and 1..=5.
MatchClock ==
    [half |-> 45, full |-> 90, fatigue_after |-> 60,
     injury_h1 |-> 1..4, injury_h2 |-> 1..5]

----------------------------------------------------------------------------
(* Static inputs: players, attribute records, squads *)

\* Player: the fields the engine reads (id, position_short).
Player(i, pos) == [id |-> i, position_short |-> pos]

\* PlayerAttributes: the skills the engine looks up by name (finishing,
\* composure, reflexes, aggression, tackling, stamina); every other skill of
\* the record is never requested.
Attrs(fin, com, ref, agg, tac, sta) ==
    [finishing |-> fin, composure |-> com, reflexes |-> ref,
     aggression |-> agg, tackling |-> tac, stamina |-> sta]

AttrNames == {"finishing", "composure", "reflexes", "aggression", "tackling", "stamina"}

----------------------------------------------------------------------------
(* 4.1 Attribute resolver *)

\* get_attr with the fatigue map passed explicitly (the fatigue loop of
\* simulate_minute reads the map while it updates it).  Result in millionths.
get_attr_in(pf, player_id, attr) ==
    LET base == IF player_id \in DOMAIN home_attrs
                    THEN (IF attr \in AttrNames THEN home_attrs[player_id][attr] ELSE DefaultAttr)
                ELSE IF player_id \in DOMAIN away_attrs
                    THEN (IF attr \in AttrNames THEN away_attrs[player_id][attr] ELSE DefaultAttr)
                ELSE DefaultAttr
        fatigue == MapGet(pf, player_id, 0)
    IN  base * (Unit - fatigue \div 4)

get_attr(player_id, attr) == get_attr_in(player_fatigue, player_id, attr)

----------------------------------------------------------------------------
(* 4.2 Player selector *)

opponent(s) == IF s = "home" THEN "away" ELSE "home"

Squad(s) == IF s = "home" THEN home_squad ELSE away_squad

\* squad.iter().take(11).filter(|p| !sent_off(p)).collect()
Available(s) ==
    LET first == Take(Squad(s), Starters)
    IN  FilterSeq(first, {first[i].id : i \in {j \in 1..Len(first) :
                              ~MapGet(player_sent_off, first[j].id, FALSE)}})

\* pick_player: available[rng.gen_range(0..available.len())]; the set of
\* players it can return.  Empty when nobody is available: gen_range on an
\* empty range panics.
pick_player(s) == Range(Available(s))

\* Weight without the floor of 1.0
Weight_unfloored(p, attr) == get_attr(p.id, attr)

\* The weight of one available player: get_attr(..).max(1.0)
Weight(p, attr) == Max(get_attr(p.id, attr), Unit)

\* pick_weighted_player: r = rng * total; the first i with r - w_1 - .. - w_i <= 0.
\* available[i] is returned for the draws r in (w_1+..+w_(i-1), w_1+..+w_i], a
\* non-empty interval exactly when w_i > 0 (i = 1 also for r = 0).  Empty when
\* nobody is available: available.last().unwrap() panics.
pick_weighted_player(s, attr) ==
    LET av == Available(s)
    IN  {av[i] : i \in {j \in 1..Len(av) : j = 1 \/ Weight(av[j], attr) > 0}}

\* The players a scenario's draws select out of ps, the possible returns of a
\* pick on side s: every one of them, or only the first available player (the
\* draw 0 of gen_range(0..len) and of rng.gen::<f64>() * total)
Drawn(c, s, ps) ==
    IF c.picks = "first" /\ ps # {} THEN {Available(s)[1]} ELSE ps

\* pick_goalkeeper: squad.iter().find(GK).unwrap_or(&squad[0]); the set holds
\* the one player returned, and is empty when the squad is empty (squad[0]
\* panics).
pick_goalkeeper(s) ==
    LET sq == Squad(s)
        gks == {i \in 1..Len(sq) : sq[i].position_short = "GK"}
    IN  IF gks # {} THEN {sq[CHOOSE i \in gks : \A j \in gks : i <= j]}
        ELSE IF Len(sq) > 0 THEN {sq[1]}
        ELSE {}

----------------------------------------------------------------------------
(* Statistics *)

StatNames == {"shots", "shots_on_target", "corners", "fouls", "yellow_cards",
              "red_cards", "saves", "passes", "tackles", "offsides"}

\* TeamStats::new()
NewTeamStats ==
    [possession_pct |-> 50, shots |-> 0, shots_on_target |-> 0, corners |-> 0,
     fouls |-> 0, yellow_cards |-> 0, red_cards |-> 0, saves |-> 0,
     passes |-> 0, tackles |-> 0, offsides |-> 0]

\* inc_stat without a match arm for red_cards
inc_stat_no_red_cards(st, s, stat, amount) ==
    IF stat \in StatNames \ {"red_cards"} THEN [st EXCEPT ![s][stat] = @ + amount] ELSE st

\* inc_stat without a match arm for saves
inc_stat_no_saves(st, s, stat, amount) ==
    IF stat \in StatNames \ {"saves"} THEN [st EXCEPT ![s][stat] = @ + amount] ELSE st

\* inc_stat adding the amount twice
inc_stat_twice(st, s, stat, amount) ==
    IF stat \in StatNames THEN [st EXCEPT ![s][stat] = @ + 2 * amount] ELSE st

\* inc_stat on a MatchStats value
inc_stat(st, s, stat, amount) ==
    IF stat \in StatNames THEN [st EXCEPT ![s][stat] = @ + amount] ELSE st

----------------------------------------------------------------------------
(* 4.3 Ball model *)

\* is_attacking_third with the thirds ten units wider
is_attacking_third_wide(b, s) == IF s = "home" THEN b.x > 60 ELSE b.x < 40

is_attacking_third(b, s) == IF s = "home" THEN b.x > 70 ELSE b.x < 30

\* delta in [5, 15), dy in [-8, 8)
move_ball_forward(b, s, delta, dy) ==
    [x |-> IF s = "home" THEN Min(b.x + delta, PitchLength) ELSE Max(b.x - delta, 0),
     y |-> Clamp(b.y + dy, 0, PitchWidth)]

\* jitter_ball without the clamps
jitter_ball_unclamped(b, dx, dy) == [x |-> b.x + dx, y |-> b.y + dy]

\* dx, dy in [-3, 3)
jitter_ball(b, dx, dy) ==
    [x |-> Clamp(b.x + dx, 0, PitchLength), y |-> Clamp(b.y + dy, 0, PitchWidth)]

\* The pass loop of simulate_minute: n times inc_stat(passes) and jitter_ball,
\* pass i drawing js[i].
RECURSIVE PassLoop(_, _, _, _)
PassLoop(b, js, i, n) ==
    IF i > n THEN b ELSE PassLoop(jitter_ball(b, js[i][1], js[i][2]), js, i + 1, n)

Center == [x |-> CenterX, y |-> CenterY]

\* zone_of naming the away side's thirds from the away side's own end
zone_of_mirrored(b, poss) ==
    IF b.x < 33 THEN (IF poss = "home" THEN "def_home" ELSE "def_away")
    ELSE IF b.x > 67 THEN (IF poss = "home" THEN "att_home" ELSE "att_away")
    ELSE "mid"

\* simulate_minute, lines 564-571
zone_of(b, poss) ==
    IF b.x < 33 THEN (IF poss = "home" THEN "def_home" ELSE "att_away")
    ELSE IF b.x > 67 THEN (IF poss = "home" THEN "att_home" ELSE "def_away")
    ELSE "mid"

----------------------------------------------------------------------------
(* Events, ticks *)

home_team == [name |-> "HomeName"]
away_team == [name |-> "AwayName"]
TeamName(s) == IF s = "home" THEN home_team.name ELSE away_team.name

\* Event with the two players in each other's place
Event_players_swapped(type, team, primary, secondary, descr, x, y) ==
    [event_type |-> type, team |-> team, primary_player |-> secondary,
     secondary_player |-> primary, description |-> descr, x |-> x, y |-> y]

\* SimulationEvent (sequence is always empty and left out)
Event(type, team, primary, secondary, descr, x, y) ==
    [event_type |-> type, team |-> team, primary_player |-> primary,
     secondary_player |-> secondary, description |-> descr, x |-> x, y |-> y]

\* build_commentary
build_commentary(evs, m, poss) ==
    IF evs = <<>> THEN <<<<m, TeamName(poss), "keep possession in midfield.">>>>
    ELSE [i \in 1..Len(evs) |-> <<m, evs[i].description>>]

NoTick == [minute |-> 0, phase |-> "none", events |-> <<>>]

EmptyTicks ==
    [len |-> 0, last |-> NoTick, home_poss |-> 0, log |-> <<>>, seen |-> <<>>, cards |-> <<>>,
     all |-> <<>>]

CardTypes == {"yellow_card", "second_yellow", "red_card"}

BagAdd(bag, k) == MapPut(bag, k, MapGet(bag, k, 0) + 1)

\* Count every event of evs under (event_type, team)
RECURSIVE CountEvents(_, _)
CountEvents(bag, evs) ==
    IF evs = <<>> THEN bag
    ELSE CountEvents(BagAdd(bag, <<Head(evs).event_type, Head(evs).team>>), Tail(evs))

\* Count every card event of evs under (event_type, primary_player)
RECURSIVE CountCards(_, _)
CountCards(bag, evs) ==
    IF evs = <<>> THEN bag
    ELSE IF Head(evs).event_type \in CardTypes
      THEN CountCards(BagAdd(bag, <<Head(evs).event_type, Head(evs).primary_player>>), Tail(evs))
      ELSE CountCards(bag, Tail(evs))

\* ticks.push(tick); kind is "minute" for a simulated minute, else the marker's
\* phase; keep says whether the scenario keeps the whole vector in all
Push(t, tick, kind, keep) ==
    [all |-> IF keep THEN Append(t.all, tick) ELSE t.all,
     len |-> t.len + 1,
     last |-> tick,
     home_poss |-> t.home_poss + (IF tick.possession = "home" THEN 1 ELSE 0),
     log |-> Append(t.log, <<tick.minute, kind>>),
     seen |-> CountEvents(t.seen, tick.events),
     cards |-> CountCards(t.cards, tick.events)]

\* Number of events of a type and team in all ticks pushed so far
Seen(type, team) == MapGet(ticks.seen, <<type, team>>, 0)

\* Number of card events of a type naming a player, in all ticks pushed so far
CardsOf(type, pid) == MapGet(ticks.cards, <<type, pid>>, 0)

\* (x / y * 100.0).round() for 0 <= x <= y, y > 0: f64::round rounds half away from zero
RoundPct(x, y) == (200 * x + y) \div (2 * y)

----------------------------------------------------------------------------
(* What lies outside a single engine run, before anything has used it *)

\* get_lineup_data() has not been called
NoLineup == [home |-> <<>>, away |-> <<>>, called |-> FALSE]

\* No simulate_match command is running on this engine
NoCommand == [pc |-> "none", i |-> 0, result |-> "none"]

\* No match row is looked at
NoDatabase == [status |-> "none", home_score |-> 0, away_score |-> 0, rows |-> <<>>,
               attempts |-> 0, failed |-> 0]

\* No earlier run to compare with
NoRun == [run |-> 1, ticks |-> <<>>]

\* Option<Formation>: None
NoFormation == [some |-> FALSE]

----------------------------------------------------------------------------
(* Construction *)

\* The fields of the value SimulationEngine::new returns
NewEngine(in) ==
    /\ home_squad = in.home_squad
    /\ away_squad = in.away_squad
    /\ home_attrs = in.home_attrs
    /\ away_attrs = in.away_attrs
    /\ home_formation = in.home_formation
    /\ away_formation = in.away_formation
    /\ score = [home |-> 0, away |-> 0]
    /\ stats = [home |-> NewTeamStats, away |-> NewTeamStats]
    /\ ball = Center
    /\ possession = "home"
    /\ zone = "mid"
    /\ home_starters = <<>>
    /\ away_starters = <<>>
    /\ player_fatigue = <<>>
    /\ player_yellow_cards = <<>>
    /\ player_sent_off = <<>>
    /\ ticks = EmptyTicks
    /\ injury_time_h1 = 0
    /\ injury_time_h2 = 0
    /\ minute = 0
    /\ side = "none"
    /\ events = <<>>
    /\ pc = "new"
    /\ step = "idle"

\* SimulationEngine::new, for one choice of the static inputs
New(in) ==
    /\ NewEngine(in)
    /\ lineup = NoLineup
    /\ cmd = NoCommand
    /\ window = <<>>
    /\ db = NoDatabase
    /\ first_run = NoRun

\* SimulationEngine::new called again with the same arguments once the first
\* engine's simulate() has returned; the first result is kept for comparison.
\* new() takes the teams, squads, attributes and formations and nothing else:
\* simulate() and its helpers each take rand::thread_rng().
SecondEngine ==
    /\ pc = "done"
    /\ first_run.run = 1
    /\ first_run' = [run |-> 2, ticks |-> ticks.all]
    /\ score' = [home |-> 0, away |-> 0]
    /\ stats' = [home |-> NewTeamStats, away |-> NewTeamStats]
    /\ ball' = Center
    /\ possession' = "home"
    /\ zone' = "mid"
    /\ home_starters' = <<>>
    /\ away_starters' = <<>>
    /\ player_fatigue' = <<>>
    /\ player_yellow_cards' = <<>>
    /\ player_sent_off' = <<>>
    /\ ticks' = EmptyTicks
    /\ injury_time_h1' = 0
    /\ injury_time_h2' = 0
    /\ minute' = 0
    /\ side' = "none"
    /\ events' = <<>>
    /\ pc' = "new"
    /\ step' = "idle"
    /\ UNCHANGED <<inputs, lineup, cmd, window, db>>

----------------------------------------------------------------------------
(* Line-ups: get_lineup_data() and the formation positions *)

\* Formation.positions, a JSON text: an array of objects (records with the
\* members they have), or a text that is no array
JsonArray(items) == [array |-> TRUE, items |-> items]
NotJson == [array |-> FALSE, items |-> <<>>]

\* Option<Formation>: Some, with the positions text
Formation(json) == [some |-> TRUE, positions |-> json]

FormationPosition(role, x, y) == [position |-> role, x |-> x, y |-> y]

\* serde_json::from_str::<Vec<FormationPosition>>(text).ok(): every item needs
\* the members position, x and y
from_str(json) ==
    IF /\ json.array
       /\ \A i \in 1..Len(json.items) : {"position", "x", "y"} \subseteq DOMAIN json.items[i]
    THEN [some |-> TRUE, value |-> json.items]
    ELSE [some |-> FALSE]

\* The default 4-4-2 of parse_formation_positions
Default442 ==
    <<FormationPosition("GK", 5, 34),
      FormationPosition("LB", 20, 8), FormationPosition("CB", 20, 24),
      FormationPosition("CB", 20, 44), FormationPosition("RB", 20, 60),
      FormationPosition("LM", 45, 8), FormationPosition("CM", 45, 24),
      FormationPosition("CM", 45, 44), FormationPosition("RM", 45, 60),
      FormationPosition("ST", 75, 24), FormationPosition("ST", 75, 44)>>

parse_formation_positions(formation) ==
    IF formation.some /\ from_str(formation.positions).some
    THEN from_str(formation.positions).value
    ELSE Default442

\* One LineupPlayer: p is the squad's i-th player, xy its place
LineupPlayer(p, i, xy, team) ==
    [id |-> p.id,
     name |-> p.id,
     shirt_number |-> IF "shirt_number" \in DOMAIN p THEN p.shirt_number ELSE i,
     position |-> IF "position_short" \in DOMAIN p THEN p.position_short ELSE "CM",
     x |-> xy[1], y |-> xy[2], team |-> team]

\* get_lineup_data with the away side placed like the home side
get_lineup_data_unmirrored ==
    LET home_positions == parse_formation_positions(home_formation)
        away_positions == parse_formation_positions(away_formation)
        place(ps, i) == IF i <= Len(ps) THEN <<ps[i].x, ps[i].y>> ELSE <<50, 50>>
    IN  [home |-> [i \in 1..Min(Starters, Len(home_squad)) |->
                     LineupPlayer(home_squad[i], i, place(home_positions, i), "home")],
         away |-> [i \in 1..Min(Starters, Len(away_squad)) |->
                     LineupPlayer(away_squad[i], i, place(away_positions, i), "away")]]

\* get_lineup_data(): the LineupData returned
get_lineup_data ==
    LET home_positions == parse_formation_positions(home_formation)
        away_positions == parse_formation_positions(away_formation)
        home_xy(i) == IF i <= Len(home_positions)
                      THEN <<home_positions[i].x, home_positions[i].y>>
                      ELSE <<50, 50>>
        away_xy(i) == IF i <= Len(away_positions)
                      THEN <<PitchLength - away_positions[i].x, away_positions[i].y>>
                      ELSE <<50, 50>>
    IN  [home |-> [i \in 1..Min(Starters, Len(home_squad)) |->
                     LineupPlayer(home_squad[i], i, home_xy(i), "home")],
         away |-> [i \in 1..Min(Starters, Len(away_squad)) |->
                     LineupPlayer(away_squad[i], i, away_xy(i), "away")]]

\* A call of get_lineup_data(&self) on the engine, at any time
GetLineupData ==
    /\ lineup' = [home |-> get_lineup_data.home, away |-> get_lineup_data.away,
                  called |-> TRUE]
    /\ UNCHANGED <<inputs, engine, locals, cmd, window, db, first_run>>

----------------------------------------------------------------------------
(* 4.6 Match driver: simulate() up to the first minute *)

\* simulate(), lines 422-435: starters, kick-off state, first-half injury time
Kickoff(c) ==
    /\ pc = "new"
    /\ home_starters' = Take(home_squad, Starters)
    /\ away_starters' = Take(away_squad, Starters)
    /\ ball' = Center
    /\ possession' = "home"
    /\ \E inj \in c.clock.injury_h1 : injury_time_h1' = inj
    /\ minute' = 1
    /\ pc' = "h1"
    /\ step' = "start"
    /\ UNCHANGED <<inputs, outside, score, stats, zone, player_fatigue, player_yellow_cards,
                   player_sent_off, ticks, injury_time_h2, side, events>>

\* LastMinute with the loop's range taken as exclusive
LastMinute_exclusive(c) ==
    IF pc = "h1" THEN c.clock.half + injury_time_h1 - 1 ELSE c.clock.full + injury_time_h2 - 1

\* The last minute of the running half's for loop (lines 435, 458)
LastMinute(c) ==
    IF pc = "h1" THEN c.clock.half + injury_time_h1 ELSE c.clock.full + injury_time_h2

----------------------------------------------------------------------------
(* 4.5 Minute orchestrator, first part: fatigue, passing, ball advance *)

\* FatigueStep with the rate taken off instead of added
FatigueStep_recovering(pf, pid) ==
    LET stamina == get_attr_in(pf, pid, "stamina")
        rate == Max(Unit - stamina \div 40, Unit \div 5) \div 100
        f == MapGet(pf, pid, 0)
    IN  MapPut(pf, pid, Min(f - rate, Unit))

\* One player's fatigue step: rate = 0.01 * (1 - stamina/40).max(0.2);
\* f = (f + rate).min(1.0)
FatigueStep(pf, pid) ==
    LET stamina == get_attr_in(pf, pid, "stamina")
        rate == Max(Unit - stamina \div 40, Unit \div 5) \div 100
        f == MapGet(pf, pid, 0)
    IN  MapPut(pf, pid, Min(f + rate, Unit))

\* for p in home_starters.chain(away_starters) { .. }
RECURSIVE FatigueLoop(_, _)
FatigueLoop(ps, pf) ==
    IF ps = <<>> THEN pf ELSE FatigueLoop(Tail(ps), FatigueStep(pf, Head(ps).id))

\* update_fatigue running the loop in every minute
update_fatigue_every_minute(c, m, pf) == FatigueLoop(home_starters \o away_starters, pf)

\* simulate_minute, lines 493-501
update_fatigue(c, m, pf) ==
    IF m > c.clock.fatigue_after THEN FatigueLoop(home_starters \o away_starters, pf) ELSE pf

\* simulate_minute, lines 488-513
MinuteStart(c) ==
    /\ pc \in {"h1", "h2"}
    /\ step = "start"
    /\ minute <= LastMinute(c)
    /\ side' = possession
    /\ events' = <<>>
    /\ player_fatigue' = update_fatigue(c, minute, player_fatigue)
    /\ \E pass_count \in c.pass_counts, js \in c.jitters, rf \in c.rolls.forward :
         LET passed == PassLoop(ball, js, 1, pass_count)
         IN  /\ stats' = inc_stat(stats, possession, "passes", pass_count)
             /\ IF rf < 600000
                  THEN \E fw \in c.forward_draws :
                         ball' = move_ball_forward(passed, possession, fw[1], fw[2])
                  ELSE ball' = passed
    /\ step' = "decide"
    /\ UNCHANGED <<inputs, outside, score, possession, zone, home_starters, away_starters,
                   player_yellow_cards, player_sent_off, ticks, injury_time_h1,
                   injury_time_h2, minute, pc>>

----------------------------------------------------------------------------
(* 4.4 Event resolvers.  Each is the part of the decision step that sets    *)
(* score, stats, ball, possession, events, the card maps, pc and step.      *)

\* A resolver returned: simulate_minute goes on to the possession flip
Returned == pc' = pc /\ step' = "finish"

\* A selection found nobody (index out of an empty range, unwrap of None):
\* the thread panics and simulate() never returns
Panicked ==
    /\ pc' = "panic"
    /\ step' = step
    /\ UNCHANGED <<score, stats, ball, possession, events, player_yellow_cards, player_sent_off>>

TotalStat(stat) == stats.home[stat] + stats.away[stat]

\* 0.40 - (finishing + composure) / 80.0 * 0.15
MissChance(finishing, composure) == 400000 - ((finishing + composure) * 15) \div 8000
\* 0.25 + (finishing - 10.0) / 40.0 * 0.1
GoalChance(finishing) == 250000 + (finishing - 10 * Unit) \div 400
\* 0.13 + (aggression - 10.0) / 20.0 * 0.07
CardChance(aggression) == 130000 + ((aggression - 10 * Unit) * 7) \div 2000

\* goal_effect with the score kept for the home side only
goal_effect_home_only(sc, s) ==
    [score |-> IF s = "home" THEN [sc EXCEPT ![s] = @ + 1] ELSE sc,
     ball |-> [x |-> 50, y |-> 34],
     possession |-> opponent(s)]

\* goal_effect counting a goal twice
goal_effect_twice(sc, s) ==
    [score |-> [sc EXCEPT ![s] = @ + 2],
     ball |-> [x |-> 50, y |-> 34],
     possession |-> opponent(s)]

\* goal_effect leaving the ball with the scoring side
goal_effect_keeps_ball(sc, s) ==
    [score |-> [sc EXCEPT ![s] = @ + 1],
     ball |-> [x |-> 50, y |-> 34],
     possession |-> s]

\* goal_effect leaving the ball where the goal event is placed
goal_effect_ball_in_goal(sc, s) ==
    [score |-> [sc EXCEPT ![s] = @ + 1],
     ball |-> [x |-> IF s = "home" THEN 95 ELSE 5, y |-> 34],
     possession |-> opponent(s)]

\* resolve_shot, lines 303-316: what a goal by side s does to the score, the
\* ball and the possession
goal_effect(sc, s) ==
    [score |-> [sc EXCEPT ![s] = @ + 1],
     ball |-> [x |-> 50, y |-> 34],
     possession |-> opponent(s)]

\* resolve_shot(side, minute)
resolve_shot(c, s) ==
    LET opp == opponent(s)
        shooters == Drawn(c, s, pick_weighted_player(s, "finishing"))
        gks == pick_goalkeeper(opp)
    IN  IF shooters = {} \/ gks = {} THEN Panicked
        ELSE
          /\ TotalStat("shots") < c.max_shots
          /\ Returned
          /\ UNCHANGED <<player_yellow_cards, player_sent_off>>
          /\ \E shooter \in shooters, gk \in gks, rb \in c.rolls.block :
               LET finishing == get_attr(shooter.id, "finishing")
                   composure == get_attr(shooter.id, "composure")
                   st1 == inc_stat(stats, s, "shots", 1)
                   blocked == Event("shot_blocked", s, shooter.id, NoPlayer,
                                    <<"shot is blocked!", shooter.id>>, ball.x, ball.y)
                   corner == Event("corner", s, NoPlayer, NoPlayer,
                                   <<"Corner kick to", TeamName(s)>>,
                                   IF s = "home" THEN 100 ELSE 0, ball.y)
                   wide == Event("shot_off_target", s, shooter.id, NoPlayer,
                                 <<"fires wide!", shooter.id>>, ball.x, ball.y)
                   goal == Event("goal", s, shooter.id, NoPlayer,
                                 <<"GOAL! scores!", shooter.id>>,
                                 IF s = "home" THEN 95 ELSE 5, 34)
                   save == Event("save", opp, gk.id, shooter.id,
                                 <<"Great save by", gk.id>>, ball.x, ball.y)
               IN  IF rb < 250000
                   THEN \E rc \in c.rolls.corner :
                          /\ stats' = IF rc < 400000 THEN inc_stat(st1, s, "corners", 1) ELSE st1
                          /\ events' = events \o (IF rc < 400000 THEN <<blocked, corner>>
                                                  ELSE <<blocked>>)
                          /\ UNCHANGED <<score, ball, possession>>
                   ELSE \E rm \in c.rolls.miss :
                     IF rm < MissChance(finishing, composure)
                     THEN /\ stats' = st1
                          /\ events' = events \o <<wide>>
                          /\ UNCHANGED <<score, ball, possession>>
                     ELSE \E rg \in c.rolls.goal :
                       LET st2 == inc_stat(st1, s, "shots_on_target", 1)
                       IN  IF rg < GoalChance(finishing)
                           THEN /\ score' = goal_effect(score, s).score
                                /\ stats' = st2
                                /\ events' = events \o <<goal>>
                                /\ ball' = goal_effect(score, s).ball
                                /\ possession' = goal_effect(score, s).possession
                           ELSE \E rs \in c.rolls.save_corner :
                                /\ stats' = (IF rs < 500000
                                               THEN inc_stat(inc_stat(st2, opp, "saves", 1),
                                                             s, "corners", 1)
                                               ELSE inc_stat(st2, opp, "saves", 1))
                                /\ events' = events \o <<save>>
                                /\ UNCHANGED <<score, ball, possession>>

\* second_yellow that lets a second plain yellow through
second_yellow_late(prev_yellows) == prev_yellows >= 2

\* simulate_foul, line 367: a card for a player holding prev_yellows is a
\* second yellow
second_yellow(prev_yellows) == prev_yellows >= 1

\* simulate_foul(side)
simulate_foul(c, s) ==
    LET opp == opponent(s)
        foulers == Drawn(c, opp, pick_weighted_player(opp, "aggression"))
        fouleds == Drawn(c, s, pick_player(s))
    IN  IF foulers = {} \/ fouleds = {} THEN Panicked
        ELSE
          /\ TotalStat("fouls") < c.max_fouls
          /\ Returned
          /\ UNCHANGED <<score, ball, possession>>
          /\ \E fouler \in foulers, fouled \in fouleds,
                rcard \in c.rolls.card, rred \in c.rolls.red :
               LET id == fouler.id
                   ev(type, text) == Event(type, opp, id, NoPlayer, <<text, id>>, ball.x, ball.y)
                   foul == Event("foul", opp, id, fouled.id, <<"Foul by", id>>, ball.x, ball.y)
                   st1 == inc_stat(stats, opp, "fouls", 1)
                   aggression == get_attr(id, "aggression")
                   carded == rcard < CardChance(aggression)
                   prev_yellows == MapGet(player_yellow_cards, id, 0)
                   second == carded /\ second_yellow(prev_yellows)
                   first == carded /\ ~second_yellow(prev_yellows)
                   so1 == IF second THEN MapPut(player_sent_off, id, TRUE) ELSE player_sent_off
                   yc1 == IF first THEN MapPut(player_yellow_cards, id, prev_yellows + 1)
                          ELSE player_yellow_cards
                   st2 == IF second
                            THEN inc_stat(inc_stat(st1, opp, "yellow_cards", 1), opp, "red_cards", 1)
                          ELSE IF first THEN inc_stat(st1, opp, "yellow_cards", 1)
                          ELSE st1
                   ev2 == IF second
                            THEN <<foul, ev("second_yellow", "Second yellow card! is sent off!")>>
                          ELSE IF first THEN <<foul, ev("yellow_card", "Yellow card for")>>
                          ELSE <<foul>>
                   red == rred < 5000
               IN  /\ player_yellow_cards' = yc1
                   /\ player_sent_off' = IF red THEN MapPut(so1, id, TRUE) ELSE so1
                   /\ stats' = IF red THEN inc_stat(st2, opp, "red_cards", 1) ELSE st2
                   /\ events' = events \o ev2 \o
                                  (IF red THEN <<ev("red_card", "Straight red card for")>>
                                   ELSE <<>>)

\* tackle falling through into the offside branch as well
tackle_falls_through(c, s) ==
    LET opp == opponent(s)
        tacklers == Drawn(c, opp, pick_weighted_player(opp, "tackling"))
    IN  IF tacklers = {} THEN Panicked
        ELSE
          /\ TotalStat("tackles") < c.max_tackles
          /\ Returned
          /\ \E tackler \in tacklers :
               events' = events \o <<Event("tackle", opp, tackler.id, NoPlayer,
                                           <<"Good tackle by", tackler.id>>, ball.x, ball.y),
                                     Event("offside", s, NoPlayer, NoPlayer,
                                           <<"Offside! The flag is up.">>, ball.x, ball.y)>>
          /\ stats' = inc_stat(inc_stat(stats, opp, "tackles", 1), s, "offsides", 1)
          /\ possession' = opp
          /\ UNCHANGED <<score, ball, player_yellow_cards, player_sent_off>>

\* tackle leaving the ball with the side that had it
tackle_keeps_possession(c, s) ==
    LET opp == opponent(s)
        tacklers == Drawn(c, opp, pick_weighted_player(opp, "tackling"))
    IN  IF tacklers = {} THEN Panicked
        ELSE
          /\ TotalStat("tackles") < c.max_tackles
          /\ Returned
          /\ \E tackler \in tacklers :
               events' = events \o <<Event("tackle", opp, tackler.id, NoPlayer,
                                           <<"Good tackle by", tackler.id>>, ball.x, ball.y)>>
          /\ stats' = inc_stat(stats, opp, "tackles", 1)
          /\ UNCHANGED <<score, ball, possession, player_yellow_cards, player_sent_off>>

\* simulate_minute, lines 527-543: defensive action / turnover
tackle(c, s) ==
    LET opp == opponent(s)
        tacklers == Drawn(c, opp, pick_weighted_player(opp, "tackling"))
    IN  IF tacklers = {} THEN Panicked
        ELSE
          /\ TotalStat("tackles") < c.max_tackles
          /\ Returned
          /\ \E tackler \in tacklers :
               events' = events \o <<Event("tackle", opp, tackler.id, NoPlayer,
                                           <<"Good tackle by", tackler.id>>, ball.x, ball.y)>>
          /\ stats' = inc_stat(stats, opp, "tackles", 1)
          /\ possession' = opp
          /\ UNCHANGED <<score, ball, player_yellow_cards, player_sent_off>>

\* simulate_minute, lines 544-557: offside
offside(c, s) ==
    /\ TotalStat("offsides") < c.max_offsides
    /\ Returned
    /\ stats' = inc_stat(stats, s, "offsides", 1)
    /\ events' = events \o <<Event("offside", s, NoPlayer, NoPlayer,
                                   <<"Offside! The flag is up.">>, ball.x, ball.y)>>
    /\ possession' = opponent(s)
    /\ UNCHANGED <<score, ball, player_yellow_cards, player_sent_off>>

\* No branch of the decision tree fired
no_event ==
    /\ Returned
    /\ UNCHANGED <<score, stats, ball, possession, events, player_yellow_cards, player_sent_off>>

\* simulate_minute, lines 515-557: the decision tree
Decide(c) ==
    /\ pc \in {"h1", "h2"}
    /\ step = "decide"
    /\ LET in_attacking == is_attacking_third(ball, side)
           shot_chance == IF in_attacking THEN 150000 ELSE 30000
       IN  \E r1 \in c.rolls.shot :
             IF r1 < shot_chance THEN resolve_shot(c, side)
             ELSE \E r2 \in c.rolls.foul :
               IF r2 < 80000 THEN simulate_foul(c, side)
               ELSE \E r3 \in c.rolls.tackle :
                 IF r3 < 200000 THEN tackle(c, side)
                 ELSE IF in_attacking
                   THEN \E r4 \in c.rolls.offside :
                          IF r4 < 60000 THEN offside(c, side) ELSE no_event
                   ELSE no_event
    /\ UNCHANGED <<inputs, outside, zone, home_starters, away_starters, player_fatigue, ticks,
                   injury_time_h1, injury_time_h2, minute, side>>

----------------------------------------------------------------------------
(* 4.5 Minute orchestrator, last part: possession flip, zone, phase, tick *)

\* phase_of counting a shot off target as an attack
phase_of_any_shot(evs, s) ==
    IF \E i \in 1..Len(evs) :
         evs[i].event_type \in {"goal", "shot_blocked", "save", "shot_off_target"}
    THEN IF s = "home" THEN "attack_home" ELSE "attack_away"
    ELSE "open_play"

\* simulate_minute, lines 573-577
phase_of(evs, s) ==
    IF \E i \in 1..Len(evs) : evs[i].event_type \in {"goal", "shot_blocked", "save"}
    THEN IF s = "home" THEN "attack_home" ELSE "attack_away"
    ELSE "open_play"

\* simulate_minute, lines 559-591, and the loop's ticks.push(tick)
MinuteEnd(c) ==
    /\ pc \in {"h1", "h2"}
    /\ step = "finish"
    /\ \E rf \in c.rolls.flip :
         possession' = IF rf < 350000 THEN opponent(possession) ELSE possession
    /\ zone' = zone_of(ball, possession')
    /\ ticks' = Push(ticks,
                     [minute |-> minute,
                      phase |-> phase_of(events, side),
                      possession |-> possession',
                      zone |-> zone',
                      ball |-> ball,
                      events |-> events,
                      score |-> score,
                      stats |-> stats,
                      commentary |-> build_commentary(events, minute, possession')],
                     "minute", c.keep_ticks)
    /\ minute' = minute + 1
    /\ side' = "none"
    /\ events' = <<>>
    /\ step' = "start"
    /\ UNCHANGED <<inputs, outside, score, stats, ball, home_starters, away_starters, player_fatigue,
                   player_yellow_cards, player_sent_off, injury_time_h1, injury_time_h2, pc>>

----------------------------------------------------------------------------
(* 4.6 Match driver: the marker ticks and the possession statistics *)

\* Marker with a fresh statistics record instead of the engine's
Marker_fresh_stats(m, ph, text) ==
    [minute |-> m, phase |-> ph, possession |-> possession, zone |-> "mid",
     ball |-> [x |-> 50, y |-> 34], events |-> <<>>, score |-> score,
     stats |-> [home |-> NewTeamStats, away |-> NewTeamStats],
     commentary |-> <<text, home_team.name, score.home, score.away, away_team.name>>]

\* Marker stamped with the last played minute instead of 45 / 90
Marker_last_minute(m, ph, text) ==
    [minute |-> minute - 1, phase |-> ph, possession |-> possession, zone |-> "mid",
     ball |-> [x |-> 50, y |-> 34], events |-> <<>>, score |-> score, stats |-> stats,
     commentary |-> <<text, home_team.name, score.home, score.away, away_team.name>>]

\* Marker whose score line names the away score first
Marker_scores_swapped(m, ph, text) ==
    [minute |-> m, phase |-> ph, possession |-> possession, zone |-> "mid",
     ball |-> [x |-> 50, y |-> 34], events |-> <<>>, score |-> score, stats |-> stats,
     commentary |-> <<text, home_team.name, score.away, score.home, away_team.name>>]

\* The marker tick pushed at half time and at full time (lines 441-451, 464-474)
Marker(m, ph, text) ==
    [minute |-> m, phase |-> ph, possession |-> possession, zone |-> "mid",
     ball |-> [x |-> 50, y |-> 34], events |-> <<>>, score |-> score, stats |-> stats,
     commentary |-> <<text, home_team.name, score.home, score.away, away_team.name>>]

\* HalfTime leaving the ball with the side that ended the first half
HalfTime_keeps_possession(c) ==
    /\ pc = "h1"
    /\ step = "start"
    /\ minute > LastMinute(c)
    /\ ticks' = Push(ticks, Marker(c.clock.half, "half_time", "Half time!"), "half_time",
                     c.keep_ticks)
    /\ ball' = Center
    /\ \E inj \in c.clock.injury_h2 : injury_time_h2' = inj
    /\ minute' = c.clock.half + 1
    /\ pc' = "h2"
    /\ UNCHANGED <<inputs, outside, score, stats, possession, zone, home_starters, away_starters,
                   player_fatigue, player_yellow_cards, player_sent_off, injury_time_h1, side,
                   events, step>>

\* simulate(), lines 440-458: half-time tick, second-half kick-off
HalfTime(c) ==
    /\ pc = "h1"
    /\ step = "start"
    /\ minute > LastMinute(c)
    /\ ticks' = Push(ticks, Marker(c.clock.half, "half_time", "Half time!"), "half_time",
                     c.keep_ticks)
    /\ ball' = Center
    /\ possession' = "away"
    /\ \E inj \in c.clock.injury_h2 : injury_time_h2' = inj
    /\ minute' = c.clock.half + 1
    /\ pc' = "h2"
    /\ UNCHANGED <<inputs, outside, score, stats, zone, home_starters, away_starters, player_fatigue,
                   player_yellow_cards, player_sent_off, injury_time_h1, side, events, step>>

\* possession_pct cutting the home share down to a whole number
possession_pct_truncated(home_poss_min, total_minutes) ==
    [home |-> (100 * home_poss_min) \div total_minutes,
     away |-> 100 - (100 * home_poss_min) \div total_minutes]

\* possession_pct with the away share rounded on its own
possession_pct_each_rounded(home_poss_min, total_minutes) ==
    [home |-> RoundPct(home_poss_min, total_minutes),
     away |-> RoundPct(total_minutes - home_poss_min, total_minutes)]

\* simulate(), lines 477-480: the two percentages from the number of ticks
\* with possession == "home" and the number of ticks
possession_pct(home_poss_min, total_minutes) ==
    [home |-> RoundPct(home_poss_min, total_minutes),
     away |-> 100 - RoundPct(home_poss_min, total_minutes)]

\* simulate(), lines 463-485: full-time tick, possession percentages written
\* to the engine's stats and to the last tick
FullTime(c) ==
    /\ pc = "h2"
    /\ step = "start"
    /\ minute > LastMinute(c)
    /\ LET pushed == Push(ticks, Marker(c.clock.full, "full_time", "Full time!"), "full_time",
                          c.keep_ticks)
           pct == possession_pct(pushed.home_poss, pushed.len)
           final == [stats EXCEPT !.home.possession_pct = pct.home,
                                  !.away.possession_pct = pct.away]
       IN  /\ stats' = final
           /\ ticks' = [pushed EXCEPT
                          !.last.stats = final,
                          !.all = IF c.keep_ticks THEN [@ EXCEPT ![pushed.len].stats = final]
                                  ELSE @]
    /\ pc' = "done"
    /\ step' = "idle"
    /\ UNCHANGED <<inputs, outside, score, ball, possession, zone, home_starters, away_starters,
                   player_fatigue, player_yellow_cards, player_sent_off, injury_time_h1,
                   injury_time_h2, minute, side, events>>

Step(c) ==
    \/ Kickoff(c)
    \/ MinuteStart(c)
    \/ Decide(c)
    \/ MinuteEnd(c)
    \/ HalfTime(c)
    \/ FullTime(c)

----------------------------------------------------------------------------
(* The host command simulate_match (commands/mod.rs)                        *)
(* cmd.pc: "called" at entry; "run" from the engine's construction to the   *)
(* end of the emit loop; "save", "events", "finish" for the three parts of  *)
(* the save block; "returned".  The engine's fields hold from the start     *)
(* what new() is given at line 268.  A window entry is one window.emit      *)
(* call: its channel, the index of the tick and of the event it carries (0  *)
(* for none) and whether the call succeeded.                                *)

\* simulate_match has been invoked on a match row with this status
Called(status) ==
    /\ lineup = NoLineup
    /\ cmd = [pc |-> "called", i |-> 0, result |-> "none"]
    /\ window = <<>>
    /\ db = [NoDatabase EXCEPT !.status = status]
    /\ first_run = NoRun

Emit(channel, t, e) == [channel |-> channel, tick |-> t, event |-> e, ok |-> TRUE]

\* Calls to window.emit and to the save functions that have failed so far
Failures == Cardinality({k \in 1..Len(window) : ~window[k].ok}) + db.failed

\* The sets of calls, out of n, that a scenario lets fail now
MayFail(c, n) == {F \in SUBSET (1..n) : Cardinality(F) + Failures <= c.max_failures}

\* The calls with their outcomes: those of F fail
Outcomes(calls, F) == [k \in 1..Len(calls) |-> [calls[k] EXCEPT !.ok = k \notin F]]

\* Positions of the events of evs whose type is in types, in order
RECURSIVE Where(_, _, _)
Where(evs, types, k) ==
    IF k > Len(evs) THEN <<>>
    ELSE (IF evs[k].event_type \in types THEN <<k>> ELSE <<>>) \o Where(evs, types, k + 1)

\* TickEmits sending a tick's event notifications ahead of its match:minute
TickEmits_events_first(t) ==
    LET tick == ticks.all[t]
        told == Where(tick.events, {"goal"} \cup CardTypes, 1)
    IN  [k \in 1..Len(told) |->
            Emit(IF tick.events[told[k]].event_type = "goal" THEN "match:goal"
                 ELSE "match:card", t, told[k])]
        \o <<Emit("match:minute", t, 0)>>
        \o (IF tick.phase = "half_time" THEN <<Emit("match:half_time", t, 0)>> ELSE <<>>)

\* simulate_match, lines 284-299: the emit calls of one iteration of the tick
\* loop, in order
TickEmits(t) ==
    LET tick == ticks.all[t]
        told == Where(tick.events, {"goal"} \cup CardTypes, 1)
    IN  <<Emit("match:minute", t, 0)>>
        \o [k \in 1..Len(told) |->
              Emit(IF tick.events[told[k]].event_type = "goal" THEN "match:goal"
                   ELSE "match:card", t, told[k])]
        \o (IF tick.phase = "half_time" THEN <<Emit("match:half_time", t, 0)>> ELSE <<>>)

\* Persisted without the fouls
Persisted_without_fouls ==
    {"goal", "yellow_card", "red_card", "second_yellow", "corner", "substitution"}

\* simulate_match, line 315: the event types that are saved
Persisted ==
    {"goal", "yellow_card", "red_card", "second_yellow", "foul", "corner", "substitution"}

\* simulate_match, lines 316-328: the MatchEvent row of an event
MatchEvent(tick, ev) ==
    [minute |-> tick.minute, event_type |-> ev.event_type, team_type |-> ev.team,
     player_name |-> ev.primary_player, description |-> ev.description,
     x_coordinate |-> ev.x, y_coordinate |-> ev.y]

\* The rows inserted for the events at the positions saved of a tick, the
\* calls of F failing
RECURSIVE InsertedRows(_, _, _, _)
InsertedRows(tick, saved, F, k) ==
    IF k > Len(saved) THEN <<>>
    ELSE (IF k \in F THEN <<>> ELSE <<MatchEvent(tick, tick.events[saved[k]])>>)
           \o InsertedRows(tick, saved, F, k + 1)

\* discard with the ? operator in place of let _ =
discard_propagating(cm, failed, next_pc, next_i) ==
    IF failed THEN [pc |-> "returned", i |-> cm.i, result |-> "Err"]
    ELSE [pc |-> next_pc, i |-> next_i, result |-> cm.result]

\* let _ = <call>; the command goes on whether or not a call failed
discard(cm, failed, next_pc, next_i) ==
    [pc |-> next_pc, i |-> next_i, result |-> cm.result]

\* simulate_match, lines 231-283: the status check, the engine, the line-up
CmdStart(c) ==
    /\ cmd.pc = "called"
    /\ IF db.status = "completed"
       THEN /\ cmd' = [cmd EXCEPT !.pc = "returned", !.result = "Match already completed"]
            /\ UNCHANGED <<lineup, window>>
       ELSE /\ lineup' = [home |-> get_lineup_data.home, away |-> get_lineup_data.away,
                          called |-> TRUE]
            /\ \E F \in MayFail(c, 1) :
                 /\ window' = window \o Outcomes(<<Emit("match:lineup", 0, 0)>>, F)
                 /\ cmd' = discard(cmd, F # {}, "run", 1)
    /\ UNCHANGED <<inputs, engine, locals, db, first_run>>

\* simulate_match, lines 284-303: one iteration of the loop over the ticks
EmitTick(c) ==
    /\ cmd.pc = "run"
    /\ pc = "done"
    /\ \E F \in MayFail(c, Len(TickEmits(cmd.i))) :
         /\ window' = window \o Outcomes(TickEmits(cmd.i), F)
         /\ cmd' = discard(cmd, F # {}, IF cmd.i = ticks.len THEN "save" ELSE "run", cmd.i + 1)
    /\ UNCHANGED <<inputs, engine, locals, lineup, db, first_run>>

\* simulate_match, lines 307-309: save_match_result with the last tick
SaveResult(c) ==
    /\ cmd.pc = "save"
    /\ \E F \in MayFail(c, 1) :
         /\ db' = IF F = {}
                  THEN [db EXCEPT !.status = "completed",
                                  !.home_score = ticks.all[ticks.len].score.home,
                                  !.away_score = ticks.all[ticks.len].score.away]
                  ELSE [db EXCEPT !.failed = @ + 1]
         /\ cmd' = discard(cmd, F # {}, "events", 1)
    /\ UNCHANGED <<inputs, engine, locals, lineup, window, first_run>>

\* simulate_match, lines 312-331: the events of one tick saved row by row
SaveEvents(c) ==
    /\ cmd.pc = "events"
    /\ LET tick == ticks.all[cmd.i]
           saved == Where(tick.events, Persisted, 1)
       IN  \E F \in MayFail(c, Len(saved)) :
             /\ db' = [db EXCEPT
                         !.rows = @ \o InsertedRows(tick, saved, F, 1),
                         !.attempts = @ + Len(saved),
                         !.failed = @ + Cardinality(F)]
             /\ cmd' = discard(cmd, F # {},
                               IF cmd.i = ticks.len THEN "finish" ELSE "events", cmd.i + 1)
    /\ UNCHANGED <<inputs, engine, locals, lineup, window, first_run>>

\* simulate_match, lines 333-336: match:full_time with the last tick, Ok(())
Finish(c) ==
    /\ cmd.pc = "finish"
    /\ \E F \in MayFail(c, 1) :
         /\ window' = window \o Outcomes(<<Emit("match:full_time", ticks.len, 0)>>, F)
         /\ cmd' = [discard(cmd, F # {}, "returned", cmd.i) EXCEPT
                      !.result = IF @ = "none" THEN "Ok" ELSE @]
    /\ UNCHANGED <<inputs, engine, locals, lineup, db, first_run>>

\* simulate_match, line 283: engine.simulate(), a step of it
Simulate(c) == cmd.pc = "run" /\ Step(c)

\* simulate_match: the command, with engine.simulate() run inside it
Command(c) ==
    \/ CmdStart(c)
    \/ Simulate(c)
    \/ EmitTick(c)
    \/ SaveResult(c)
    \/ SaveEvents(c)
    \/ Finish(c)

\* simulate_match invoked a second time on the same match and window, with no
\* reset_match in between: either after the first invocation has returned, or
\* while it waits in the sleep that ends an iteration of its tick loop (line
\* 302).  The first invocation's position and its ticks are set aside; the
\* second builds its own engine from the same rows.  Nothing is held across
\* the await: each Database call takes and releases the connection lock.
SecondInvocation ==
    /\ first_run.run = 1
    /\ \/ cmd.pc \in {"run", "save"} /\ pc = "done" /\ cmd.i > 1
       \/ cmd.pc = "returned"
    /\ first_run' = [run |-> 2, ticks |-> ticks.all, cmd |-> cmd, held |-> ticks]
    /\ cmd' = [pc |-> "called", i |-> 0, result |-> "none"]
    /\ lineup' = NoLineup
    /\ score' = [home |-> 0, away |-> 0]
    /\ stats' = [home |-> NewTeamStats, away |-> NewTeamStats]
    /\ ball' = Center
    /\ possession' = "home"
    /\ zone' = "mid"
    /\ home_starters' = <<>>
    /\ away_starters' = <<>>
    /\ player_fatigue' = <<>>
    /\ player_yellow_cards' = <<>>
    /\ player_sent_off' = <<>>
    /\ ticks' = EmptyTicks
    /\ injury_time_h1' = 0
    /\ injury_time_h2' = 0
    /\ minute' = 0
    /\ side' = "none"
    /\ events' = <<>>
    /\ pc' = "new"
    /\ step' = "idle"
    /\ UNCHANGED <<inputs, window, db>>

\* The second invocation has returned; the first goes on from where it
\* waited, with its own ticks.  What the second returned is kept.
FirstResumes ==
    /\ first_run.run = 2
    /\ cmd.pc = "returned"
    /\ first_run' = [first_run EXCEPT !.run = 3, !.cmd = cmd]
    /\ cmd' = first_run.cmd
    /\ ticks' = first_run.held
    /\ UNCHANGED <<inputs, engine, injury_time_h1, injury_time_h2, minute, side, events, pc,
                   step, lineup, window, db>>

----------------------------------------------------------------------------
(* Scenarios: the clock, the static inputs and the random draws explored *)

ShortHalf == 2
MaxShots == 2
MaxFouls == 2
MaxTackles == 1
MaxOffsides == 1
MaxFailures == 1

\* A short match with the structure of MatchClock: two halves, injury time
\* from 1, fatigue only after every first-half minute
ShortClock ==
    [half |-> ShortHalf, full |-> 2 * ShortHalf, fatigue_after |-> ShortHalf + 2,
     injury_h1 |-> 1..2, injury_h2 |-> 1..2]

\* Three-a-side squads: a goalkeeper first, attribute records for some players
SmallInputs ==
    [home_squad |-> <<Player(1, "GK"), Player(2, "ST"), Player(3, "CB")>>,
     away_squad |-> <<Player(101, "GK"), Player(102, "ST"), Player(103, "CB")>>,
     home_attrs |-> (1 :> Attrs(5, 10, 18, 12, 8, 10) @@ 2 :> Attrs(18, 16, 5, 6, 5, 14)),
     away_attrs |-> (102 :> Attrs(15, 12, 5, 20, 9, 4)),
     home_formation |-> NoFormation, away_formation |-> NoFormation]

\* Eleven-a-side squads of thirteen, goalkeepers first; the away side has no
\* attribute records
Eleven(base) == [i \in 1..13 |-> Player(base + i, IF i = 1 THEN "GK" ELSE "CM")]

FullInputs ==
    [home_squad |-> Eleven(0),
     away_squad |-> Eleven(100),
     home_attrs |-> [i \in 1..13 |-> Attrs(i, 10, 10, 10, 10, (3 * i) % 21)],
     away_attrs |-> <<>>,
     home_formation |-> NoFormation, away_formation |-> NoFormation]

Always == {0}
Never == {Unit - 1}
Either == {0, Unit - 1}

FlatJitter == [i \in 1..8 |-> <<0, 0>>]

\* The quietest draws: three passes a minute, no jitter, no ball advance, no
\* event, no possession flip
Quiet ==
    [clock |-> ShortClock,
     lineups |-> {SmallInputs},
     pass_counts |-> {3},
     jitters |-> {FlatJitter},
     picks |-> "any",
     keep_ticks |-> FALSE,
     forward_draws |-> {<<14, -8>>},
     rolls |-> [forward |-> Never, shot |-> Never, block |-> Never, corner |-> Never,
                miss |-> Never, goal |-> Never, save_corner |-> Never, foul |-> Never,
                card |-> Never, red |-> Never, tackle |-> Never, offside |-> Never,
                flip |-> Never],
     max_shots |-> 0, max_fouls |-> 0, max_tackles |-> 0, max_offsides |-> 0,
     max_failures |-> 0]

\* Shots with every outcome and ball advance
ShotDraws ==
    [Quiet EXCEPT
       !.rolls = [@ EXCEPT !.forward = Either, !.shot = {0, 100000, Unit - 1},
                           !.block = Either, !.corner = Either,
                           !.miss = {0, 380000, Unit - 1},
                           !.goal = {0, 240000, Unit - 1},
                           !.save_corner = Either],
       !.max_shots = MaxShots]

Init == \E in \in ShotDraws.lineups : New(in)
Next == Step(ShotDraws)
Spec == Init /\ [][Next]_vars

\* Every branch of the decision tree: a shot that is scored or saved, fouls
\* with every card outcome, a tackle, an offside; each by the first available
\* player
EventDraws ==
    [Quiet EXCEPT
       !.picks = "first",
       !.rolls = [@ EXCEPT !.forward = Always, !.shot = Either, !.goal = Either,
                           !.save_corner = Always, !.foul = Either,
                           !.card = Either, !.red = Either,
                           !.tackle = Either, !.offside = Either],
       !.max_shots = 1, !.max_fouls = 1,
       !.max_tackles = MaxTackles, !.max_offsides = MaxOffsides]

InitEvents == \E in \in EventDraws.lineups : New(in)
NextEvents == Step(EventDraws)
SpecEvents == InitEvents /\ [][NextEvents]_vars

\* Possession flips, two pass counts, a tackle
PossessionDraws ==
    [Quiet EXCEPT
       !.pass_counts = {3, 8},
       !.rolls = [@ EXCEPT !.flip = Either, !.tackle = Either],
       !.max_tackles = MaxTackles]

InitPossession == \E in \in PossessionDraws.lineups : New(in)
NextPossession == Step(PossessionDraws)
SpecPossession == InitPossession /\ [][NextPossession]_vars

\* The full-length match: the real clock and eleven-a-side squads, with one
\* shot that is scored or goes wide
ClockDraws ==
    [Quiet EXCEPT
       !.clock = MatchClock, !.lineups = {FullInputs},
       !.rolls = [@ EXCEPT !.shot = Either, !.miss = Either, !.goal = Always],
       !.max_shots = 1]

\* Fouls with every card outcome, and a saved shot; the shortest first half
CardDraws ==
    [Quiet EXCEPT
       !.clock = [ShortClock EXCEPT !.injury_h1 = {1}],
       !.rolls = [@ EXCEPT !.forward = Always, !.shot = Either, !.foul = Either,
                           !.card = {0, 120000, Unit - 1}, !.red = Either],
       !.max_shots = 1, !.max_fouls = MaxFouls]

InitCards == \E in \in CardDraws.lineups : New(in)
NextCards == Step(CardDraws)
SpecCards == InitCards /\ [][NextCards]_vars

InitClock == \E in \in ClockDraws.lineups : New(in)
NextClock == Step(ClockDraws)
SpecClock == InitClock /\ [][NextClock]_vars

\* A foul in every minute by the first available opponent, who may see a
\* straight red card: a side can lose all eleven starters.  Real clock, the
\* longest injury times.
SendOffDraws ==
    [Quiet EXCEPT
       !.clock = [MatchClock EXCEPT !.injury_h1 = {4}, !.injury_h2 = {5}],
       !.lineups = {FullInputs}, !.picks = "first",
       !.rolls = [@ EXCEPT !.foul = Always, !.red = Either],
       !.max_fouls = 2 * MatchClock.full]

InitSendOff == \E in \in SendOffDraws.lineups : New(in)
NextSendOff == Step(SendOffDraws)
SpecSendOff == InitSendOff /\ [][NextSendOff]_vars

\* Formations: a 4-3-3 of eleven positions, one of two positions, an empty
\* array, an item without y, a text that is no array
Formation433 ==
    Formation(JsonArray(<<FormationPosition("GK", 4, 34),
        FormationPosition("LB", 22, 10), FormationPosition("CB", 18, 26),
        FormationPosition("CB", 18, 42), FormationPosition("RB", 22, 58),
        FormationPosition("CM", 40, 18), FormationPosition("DM", 35, 34),
        FormationPosition("CM", 40, 50), FormationPosition("LW", 72, 12),
        FormationPosition("ST", 80, 34), FormationPosition("RW", 72, 56)>>))

Formations ==
    {NoFormation,
     Formation433,
     Formation(JsonArray(<<FormationPosition("GK", 3, 30), FormationPosition("ST", 90, 40)>>)),
     Formation(JsonArray(<<>>)),
     Formation(JsonArray(<<FormationPosition("GK", 3, 30), [position |-> "ST", x |-> 90]>>)),
     Formation(NotJson)}

\* Squads of thirteen, three and no players, a shirt number on some players
LineupSquads(base) ==
    {Eleven(base),
     <<Player(base + 1, "GK"), [id |-> base + 2, shirt_number |-> 9],
       [id |-> base + 3, position_short |-> "CB", shirt_number |-> 5]>>,
     <<>>}

LineupInputs ==
    {[home_squad |-> hs, away_squad |-> as, home_attrs |-> <<>>, away_attrs |-> <<>>,
      home_formation |-> hf, away_formation |-> af] :
        hs \in LineupSquads(0), as \in LineupSquads(100), hf \in Formations, af \in Formations}

\* get_lineup_data called at any moment of a quiet run
InitLineup == \E in \in LineupInputs : New(in)
NextLineup ==
    \/ GetLineupData
    \/ Step(Quiet)
SpecLineup == InitLineup /\ [][NextLineup]_vars

\* Two engines built from the same inputs, one after the other; one shot a
\* run, scored or saved; the whole tick vector is kept
ReplayDraws ==
    [Quiet EXCEPT
       !.keep_ticks = TRUE, !.picks = "first",
       !.rolls = [@ EXCEPT !.forward = Always, !.shot = Either, !.goal = Either],
       !.max_shots = 1]

InitReplay == \E in \in ReplayDraws.lineups : New(in)
NextReplay ==
    \/ Step(ReplayDraws)
    \/ SecondEngine
SpecReplay == InitReplay /\ [][NextReplay]_vars

\* simulate_match on a match that is scheduled or already completed: one
\* shot (a goal or a save) and one foul (with or without a yellow card) in a
\* match with the shortest injury times; some calls to the window and the
\* database fail
HostDraws ==
    [Quiet EXCEPT
       !.clock = [ShortClock EXCEPT !.injury_h1 = {1}, !.injury_h2 = {1}],
       !.keep_ticks = TRUE, !.picks = "first",
       !.rolls = [@ EXCEPT !.forward = Always, !.shot = Either, !.goal = Either,
                           !.foul = Either, !.card = Either],
       !.max_shots = 1, !.max_fouls = 1, !.max_failures = MaxFailures]

InitHost ==
    \E in \in HostDraws.lineups, status \in {"scheduled", "completed"} :
      NewEngine(in) /\ Called(status)
NextHost == Command(HostDraws)
SpecHost == InitHost /\ [][NextHost]_vars

\* One shot that is scored or saved, in a match with possession flips
GoalFlipDraws ==
    [Quiet EXCEPT
       !.rolls = [@ EXCEPT !.forward = Either, !.shot = Either, !.goal = Either,
                           !.flip = Either],
       !.max_shots = 1]

InitGoalFlip == \E in \in GoalFlipDraws.lineups : New(in)
NextGoalFlip == Step(GoalFlipDraws)
SpecGoalFlip == InitGoalFlip /\ [][NextGoalFlip]_vars

\* The ball driven to every edge of the pitch: eight passes a minute that all
\* jitter by the least or all by the greatest whole amount, a ball advance or
\* none, possession flips, one shot, which is a goal, and one tackle
BallDraws ==
    [Quiet EXCEPT
       !.clock = [ShortClock EXCEPT !.injury_h1 = {1}],
       !.pass_counts = {8}, !.picks = "first",
       !.jitters = {[i \in 1..8 |-> <<d, d>>] : d \in {-3, 2}},
       !.rolls = [@ EXCEPT !.forward = Either, !.shot = Either, !.goal = Always,
                           !.tackle = Either, !.flip = Either],
       !.max_shots = 1, !.max_tackles = 1]

InitBall == \E in \in BallDraws.lineups : New(in)
NextBall == Step(BallDraws)
SpecBall == InitBall /\ [][NextBall]_vars

\* Squads of thirteen in another order: the home side's only goalkeeper is
\* its twelfth player, the away side has no goalkeeper
KeeperOnBench ==
    [FullInputs EXCEPT
       !.home_squad = [i \in 1..13 |-> Player(i, IF i = 12 THEN "GK" ELSE "CM")],
       !.away_squad = [i \in 1..13 |-> Player(100 + i, "CM")]]

\* One shot that is scored or saved and one foul, by any players, on those
\* squads
BenchDraws ==
    [Quiet EXCEPT
       !.clock = [ShortClock EXCEPT !.injury_h1 = {1}, !.injury_h2 = {1}],
       !.lineups = {KeeperOnBench},
       !.rolls = [@ EXCEPT !.forward = Always, !.shot = Either, !.goal = Either,
                           !.foul = Either],
       !.max_shots = 1, !.max_fouls = 1]

InitBench == \E in \in BenchDraws.lineups : New(in)
NextBench == Step(BenchDraws)
SpecBench == InitBench /\ [][NextBench]_vars

\* Two invocations of simulate_match on one match, the second during or after
\* the first: at most one shot, always scored, and no foul; every call to the
\* window and the database succeeds
RaceDraws ==
    [HostDraws EXCEPT
       !.rolls = [@ EXCEPT !.goal = Always, !.foul = Never, !.card = Never],
       !.max_failures = 0]

NextRace ==
    \/ Command(RaceDraws)
    \/ SecondInvocation
    \/ FirstResumes
SpecRace == InitHost /\ [][NextRace]_vars

----------------------------------------------------------------------------
(* Properties *)

PlayerIds == {home_squad[i].id : i \in 1..Len(home_squad)}
               \cup {away_squad[i].id : i \in 1..Len(away_squad)}

HasEvent(evs, type, team) ==
    \E i \in 1..Len(evs) : evs[i].event_type = type /\ evs[i].team = team

HasType(evs, type) == \E i \in 1..Len(evs) : evs[i].event_type = type

\* A tick was pushed after an earlier one: ticks.last and ticks'.last are
\* consecutive ticks of the run
ConsecutiveTicks == ticks.len >= 1 /\ ticks'.len = ticks.len + 1

\* C1: when simulate() has returned, the final score of each side equals the
\* number of goal events of that side over all ticks of the returned sequence.
C1_FinalScoreCountsGoalEvents ==
    pc = "done" => \A s \in Sides : ticks.last.score[s] = Seen("goal", s)

\* A completed run in which both sides scored
C1_Witness == pc = "done" /\ ticks.last.score.home = 1 /\ ticks.last.score.away = 1

\* C2: between two consecutive ticks each side's score is unchanged or larger
\* by exactly 1, and larger exactly when the later tick holds a goal event of
\* that side (so no other event and no marker tick changes it).
C2_ScoreStepsWithGoalEvents ==
    [][ConsecutiveTicks =>
         \A s \in Sides :
           LET d == ticks'.last.score[s] - ticks.last.score[s]
           IN  /\ d \in {0, 1}
               /\ d = 1 <=> HasEvent(ticks'.last.events, "goal", s)]_vars

\* A tick after the first that holds a goal of the away side
C2_Witness == ticks.len >= 2 /\ HasEvent(ticks.last.events, "goal", "away")

\* C3: between two consecutive ticks, markers included, no counter of either
\* side's TeamStats other than possession_pct decreases.
C3_CountersNeverDecrease ==
    [][ConsecutiveTicks =>
         \A s \in Sides, st \in StatNames :
           ticks'.last.stats[s][st] >= ticks.last.stats[s][st]]_vars

\* The full-time tick of a run with a foul, a tackle and a shot on target
C3_Witness ==
    /\ ticks.last.phase = "full_time"
    /\ ticks.last.stats.home.fouls + ticks.last.stats.away.fouls >= 1
    /\ ticks.last.stats.home.tackles + ticks.last.stats.away.tackles >= 1
    /\ ticks.last.stats.home.shots_on_target + ticks.last.stats.away.shots_on_target >= 1

\* C4: no player has more than one yellow_card event, more than one
\* second_yellow event or a recorded yellow count above 1; a second_yellow
\* event comes in a later tick than the player's one yellow_card event, and the
\* player is marked sent off from then on.
C4_SecondBookingIsSecondYellow ==
    \A p \in PlayerIds :
      /\ CardsOf("yellow_card", p) <= 1
      /\ CardsOf("second_yellow", p) <= 1
      /\ MapGet(player_yellow_cards, p, 0) <= 1
      /\ CardsOf("second_yellow", p) = 1 =>
           /\ CardsOf("yellow_card", p) = 1
           /\ MapGet(player_sent_off, p, FALSE)
      /\ ~(\E i, j \in 1..Len(ticks.last.events) :
             /\ ticks.last.events[i].event_type = "yellow_card"
             /\ ticks.last.events[j].event_type = "second_yellow"
             /\ ticks.last.events[i].primary_player = p
             /\ ticks.last.events[j].primary_player = p)

\* A player booked twice: the tick with the second_yellow event has been pushed
C4_Witness == \E p \in PlayerIds : CardsOf("second_yellow", p) = 1

\* C5: a player marked sent off in an earlier minute is the primary_player of
\* no event of the minute being resolved (shooter, fouler, tackler, or
\* goalkeeper credited with a save).
C5_SentOffNeverActs ==
    [][step = "decide" =>
         \A i \in 1..Len(events') :
           events'[i].primary_player # NoPlayer =>
             ~MapGet(player_sent_off, events'[i].primary_player, FALSE)]_vars

\* Number of ticks of a kind in the sequence
TicksOfKind(kind) == Cardinality({i \in 1..Len(ticks.log) : ticks.log[i][2] = kind})

\* C6: a completed run holds (45 + injury_h1) + (45 + injury_h2) regular ticks
\* and 2 marker ticks, injury_h1 in 1..4 and injury_h2 in 1..5: between 94 and
\* 101 ticks.
C6_TickCount ==
    pc = "done" =>
      /\ injury_time_h1 \in 1..4
      /\ injury_time_h2 \in 1..5
      /\ TicksOfKind("minute") = (45 + injury_time_h1) + (45 + injury_time_h2)
      /\ TicksOfKind("half_time") + TicksOfKind("full_time") = 2
      /\ ticks.len = TicksOfKind("minute") + 2
      /\ Len(ticks.log) = ticks.len
      /\ ticks.len \in 94..101

\* A completed run of the greatest length
C6_Witness == pc = "done" /\ ticks.len = 101

\* The regular ticks of minutes a..b, in order
RegularTicks(a, b) == [i \in 1..(b - a + 1) |-> <<a + i - 1, "minute">>]

\* C7: the returned sequence is the first-half minutes 1..45+injury_h1, one
\* half_time tick of minute 45, the second-half minutes 46..90+injury_h2, one
\* full_time tick of minute 90 as the last element; a marker tick has no events
\* and carries the score of the goal events of the ticks before it.
C7_TickOrder ==
    /\ pc = "done" =>
         ticks.log = RegularTicks(1, 45 + injury_time_h1) \o <<<<45, "half_time">>>>
                       \o RegularTicks(46, 90 + injury_time_h2) \o <<<<90, "full_time">>>>
    /\ ticks.last.phase \in {"half_time", "full_time"} =>
         /\ ticks.last.events = <<>>
         /\ ticks.last.minute = (IF ticks.last.phase = "half_time" THEN 45 ELSE 90)
         /\ ticks.log[ticks.len] = <<ticks.last.minute, ticks.last.phase>>
         /\ \A s \in Sides : ticks.last.score[s] = Seen("goal", s)

\* A completed run with a first-half goal, carried by both marker ticks
C7_Witness == pc = "done" /\ ticks.last.score.home = 1

\* C8: on the final tick the two possession percentages add up to 100 and
\* each lies in 0..100.
C8_PossessionAddsUp ==
    pc = "done" =>
      LET h == ticks.last.stats.home.possession_pct
          a == ticks.last.stats.away.possession_pct
      IN  h + a = 100 /\ h \in 0..100 /\ a \in 0..100

\* A completed run whose home share is a rounded half (1 tick of 8: 12.5)
C8_Witness == pc = "done" /\ ticks.last.stats.home.possession_pct = 13

\* C9: no step of the match lowers any player's fatigue (so it is never
\* reset and, minute after minute past 60, never decreases), and it stays
\* within [0, 1].
C9_FatigueNeverDecreases ==
    [][\A p \in PlayerIds :
         /\ MapGet(player_fatigue', p, 0) >= MapGet(player_fatigue, p, 0)
         /\ MapGet(player_fatigue', p, 0) \in 0..Unit]_vars

\* Past minute 62: every starter has been fatigued in at least two minutes
C9_Witness ==
    /\ minute > 62
    /\ \A i \in 1..Len(home_starters) : MapGet(player_fatigue, home_starters[i].id, 0) > 0

\* C10: when shot resolution for the side in possession returns with a goal,
\* that side's score is larger by exactly 1, the other side's is unchanged,
\* the ball is at (50, 34) and possession is the conceding side's.
C10_GoalAtReturn ==
    [][(step = "decide" /\ step' = "finish" /\ HasType(events', "goal")) =>
         /\ HasEvent(events', "goal", side)
         /\ score'[side] = score[side] + 1
         /\ score'[opponent(side)] = score[opponent(side)]
         /\ ball' = [x |-> 50, y |-> 34]
         /\ possession' = opponent(side)]_vars

\* Shot resolution has just returned a goal of the away side
C10_Witness ==
    /\ step = "finish"
    /\ HasEvent(events, "goal", "away")
    /\ possession = "home"

\* The branch of the decision tree an event type comes from
Family(type) ==
    IF type \in {"shot_blocked", "shot_off_target", "goal", "save", "corner"} THEN "shot"
    ELSE IF type \in {"foul", "yellow_card", "second_yellow", "red_card"} THEN "foul"
    ELSE type

\* Number of events of evs whose type is in types
CountTypes(evs, types) == Cardinality({i \in 1..Len(evs) : evs[i].event_type \in types})

\* The events of one minute come from one branch, which fired once
OneBranch(evs) ==
    /\ Cardinality({Family(evs[i].event_type) : i \in 1..Len(evs)}) <= 1
    /\ \A i \in 1..Len(evs) : Family(evs[i].event_type) \in {"shot", "foul", "tackle", "offside"}
    /\ CountTypes(evs, {"shot_blocked", "shot_off_target", "goal", "save"}) <= 1
    /\ CountTypes(evs, {"foul"}) <= 1
    /\ CountTypes(evs, {"tackle"}) <= 1
    /\ CountTypes(evs, {"offside"}) <= 1

\* C11: in every simulated minute at most one of the four event branches
\* (shot, foul, tackle, offside) fires: the events of the minute being resolved
\* and of the last tick belong to one family and hold at most one shot outcome,
\* one foul, one tackle and one offside.
C11_OneBranchPerMinute == OneBranch(events) /\ OneBranch(ticks.last.events)

\* A regular tick with two events of the foul family
C11_Witness ==
    /\ Len(ticks.last.events) >= 2
    /\ \A i \in 1..Len(ticks.last.events) : Family(ticks.last.events[i].event_type) = "foul"

\* C12: once simulate() has begun on squads of at least 11 players it runs to
\* completion for every sequence of random outcomes, sendings-off included:
\* no selection ever faults.
C12_NeverFaults == pc # "panic"

\* C13: a minute whose player selection finds nobody eligible (every starter
\* of the requested side sent off) ends the run as a rejected simulation with
\* an error value, not as a fault.
C13_EmptySelectionIsRejected ==
    [][(step = "decide" /\ pc' # pc /\ \E s \in Sides : Available(s) = <<>>)
         => pc' = "rejected"]_vars

\* No branch of the decision tree has fired so far: each of them counts
NoBranchFired ==
    \A st \in {"shots", "fouls", "tackles", "offsides"} : TotalStat(st) = 0

\* C14: as long as no event branch has fired, no tick holds an event and the
\* score is 0-0 in the engine and in the last tick; the full_time tick's
\* commentary is "Full time! <HomeName> <home> - <away> <AwayName>" with the
\* final scores, so "Full time! <HomeName> 0 - 0 <AwayName>" in such a run.
C14_FullTimeCommentary ==
    /\ NoBranchFired =>
         /\ ticks.seen = <<>>
         /\ ticks.last.events = <<>>
         /\ score = [home |-> 0, away |-> 0]
         /\ ticks.len > 0 => ticks.last.score = [home |-> 0, away |-> 0]
    /\ pc = "done" =>
         /\ ticks.last.phase = "full_time"
         /\ ticks.last.commentary =
              <<"Full time!", home_team.name, score.home, score.away, away_team.name>>
         /\ ticks.last.score = score
    /\ (pc = "done" /\ NoBranchFired) =>
         ticks.last.commentary = <<"Full time!", home_team.name, 0, 0, away_team.name>>

\* A completed run in which no branch fired
C14_Witness == pc = "done" /\ NoBranchFired

\* The positions a side's players are projected onto: those of its formation
\* when it has one whose positions text is an array of complete items, else
\* the fixed 4-4-2
PositionsUsed(f) ==
    IF /\ f.some
       /\ f.positions.array
       /\ \A i \in 1..Len(f.positions.items) :
            \A m \in {"position", "x", "y"} : m \in DOMAIN f.positions.items[i]
    THEN f.positions.items
    ELSE Default442

\* The returned line-up holds the first min(11, squad size) players of each
\* squad, in squad order
FirstElevenInOrder ==
    /\ Len(lineup.home) = Min(11, Len(home_squad))
    /\ Len(lineup.away) = Min(11, Len(away_squad))
    /\ \A i \in 1..Len(lineup.home) :
         lineup.home[i].id = home_squad[i].id /\ lineup.home[i].team = "home"
    /\ \A i \in 1..Len(lineup.away) :
         lineup.away[i].id = away_squad[i].id /\ lineup.away[i].team = "away"

\* C15 as claimed: every returned player i stands at position i of the
\* positions used for its side, the away side mirrored.
C15_EveryPlayerOnAPosition ==
    lineup.called =>
      /\ FirstElevenInOrder
      /\ \A i \in 1..Len(lineup.home) :
           LET ps == PositionsUsed(home_formation)
           IN  i \in DOMAIN ps /\ lineup.home[i].x = ps[i].x /\ lineup.home[i].y = ps[i].y
      /\ \A i \in 1..Len(lineup.away) :
           LET ps == PositionsUsed(away_formation)
           IN  i \in DOMAIN ps /\ lineup.away[i].x = 100 - ps[i].x
                               /\ lineup.away[i].y = ps[i].y

\* The line-up with the players beyond the formation's positions at (50, 50)
LineupAsAmended ==
    /\ FirstElevenInOrder
    /\ \A i \in 1..Len(lineup.home) :
         LET ps == PositionsUsed(home_formation)
         IN  IF i <= Len(ps)
             THEN lineup.home[i].x = ps[i].x /\ lineup.home[i].y = ps[i].y
             ELSE lineup.home[i].x = 50 /\ lineup.home[i].y = 50
    /\ \A i \in 1..Len(lineup.away) :
         LET ps == PositionsUsed(away_formation)
         IN  IF i <= Len(ps)
             THEN lineup.away[i].x = 100 - ps[i].x /\ lineup.away[i].y = ps[i].y
             ELSE lineup.away[i].x = 50 /\ lineup.away[i].y = 50

\* C15, amended: get_lineup_data() returns the first min(11, squad size)
\* players of each side in squad order, player i at position i of its side's
\* positions (away mirrored to 100 - x) when there is a position i and at
\* (50, 50) when there is none, the positions being the 4-4-2 when the side
\* has no formation or its text does not parse; the call changes nothing of
\* the engine, and a repeated call returns the same line-up.
C15_LineupProjection ==
    [][lineup'.called =>
         /\ LineupAsAmended'
         /\ lineup' # lineup => UNCHANGED <<inputs, engine, locals>>
         /\ lineup.called => lineup' = lineup]_vars

\* A full side on a parsed formation of fewer than eleven positions, called
\* while a match is being simulated
C15_Witness ==
    /\ lineup.called
    /\ home_formation.some
    /\ PositionsUsed(home_formation) # Default442
    /\ Len(PositionsUsed(home_formation)) = 2
    /\ Len(lineup.home) = 11
    /\ away_formation = Formation433
    /\ Len(lineup.away) = 11
    /\ pc = "h2"

\* C16: two runs of simulate() on engines built from identical static inputs
\* (the constructor takes nothing else, so from identical constructor
\* arguments) return identical tick sequences.
C16_SameInputsSameTicks ==
    (first_run.run = 2 /\ pc = "done") => ticks.all = first_run.ticks

\* Positions in the window's sequence of the calls on a channel, and of the
\* calls on it that carry event e of tick t (e = 0: the tick itself)
Sent(channel) == {k \in 1..Len(window) : window[k].channel = channel}
SentFor(channel, t, e) ==
    {k \in Sent(channel) : window[k].tick = t /\ window[k].event = e}

\* The command ran the match and returned Ok(())
ReturnedOk == cmd.pc = "returned" /\ cmd.result = "Ok"

\* C17: after simulate_match, every tick was emitted once on match:minute, in
\* sequence order; every goal event once on match:goal and every yellow_card /
\* red_card / second_yellow event once on match:card, after its tick's
\* match:minute and before the next tick's, and no other event on either;
\* match:half_time once, with the half_time tick; match:full_time once, with
\* the last tick, after every match:minute.
C17_EmitOrder ==
    ReturnedOk =>
      /\ Cardinality(Sent("match:minute")) = ticks.len
      /\ \A t \in 1..ticks.len : Cardinality(SentFor("match:minute", t, 0)) = 1
      /\ \A t1, t2 \in 1..ticks.len :
           t1 < t2 => \A k1 \in SentFor("match:minute", t1, 0),
                         k2 \in SentFor("match:minute", t2, 0) : k1 < k2
      /\ \A t \in 1..ticks.len : \A e \in 1..Len(ticks.all[t].events) :
           LET type == ticks.all[t].events[e].event_type
               channel == IF type = "goal" THEN "match:goal" ELSE "match:card"
               other == IF type = "goal" THEN "match:card" ELSE "match:goal"
           IN  IF type \in {"goal", "yellow_card", "red_card", "second_yellow"}
               THEN /\ Cardinality(SentFor(channel, t, e)) = 1
                    /\ SentFor(other, t, e) = {}
                    /\ \A k \in SentFor(channel, t, e) :
                         /\ \A m \in SentFor("match:minute", t, 0) : m < k
                         /\ t < ticks.len =>
                              \A m \in SentFor("match:minute", t + 1, 0) : k < m
               ELSE SentFor("match:goal", t, e) = {} /\ SentFor("match:card", t, e) = {}
      /\ \A k \in Sent("match:goal") \cup Sent("match:card") :
           window[k].tick \in 1..ticks.len
             /\ window[k].event \in 1..Len(ticks.all[window[k].tick].events)
      /\ Cardinality(Sent("match:half_time")) = 1
      /\ \A k \in Sent("match:half_time") : ticks.all[window[k].tick].phase = "half_time"
      /\ Cardinality(Sent("match:full_time")) = 1
      /\ \A k \in Sent("match:full_time") :
           /\ window[k].tick = ticks.len
           /\ \A m \in Sent("match:minute") : m < k

\* A returned command that emitted a goal and a card
C17_Witness == ReturnedOk /\ Sent("match:goal") # {} /\ Sent("match:card") # {}

\* The rows the claim names for the ticks from t on: one per event of a
\* persisted type, in order, with its tick's minute
RECURSIVE RowsClaimed(_)
RowsClaimed(t) ==
    IF t > Len(ticks.all) THEN <<>>
    ELSE LET tick == ticks.all[t]
             kept == SelectSeq(tick.events,
                       LAMBDA ev : ev.event_type \in {"goal", "yellow_card", "red_card",
                                                      "second_yellow", "foul", "corner",
                                                      "substitution"})
         IN  [k \in 1..Len(kept) |->
                [minute |-> tick.minute, event_type |-> kept[k].event_type,
                 team_type |-> kept[k].team, player_name |-> kept[k].primary_player,
                 description |-> kept[k].description,
                 x_coordinate |-> kept[k].x, y_coordinate |-> kept[k].y]]
             \o RowsClaimed(t + 1)

\* C18: after a simulate_match run in which every save succeeded the match
\* is completed with the last tick's score, and the event rows are exactly
\* the events of type goal, yellow_card, red_card, second_yellow, foul, corner
\* or substitution, one row each, with the minute of their tick; no tackle,
\* offside, save, shot_blocked or shot_off_target event has a row.
C18_PersistedRows ==
    (ReturnedOk /\ db.failed = 0) =>
      /\ db.status = "completed"
      /\ db.home_score = ticks.last.score.home
      /\ db.away_score = ticks.last.score.away
      /\ db.rows = RowsClaimed(1)
      /\ \A k \in 1..Len(db.rows) :
           db.rows[k].event_type \notin {"tackle", "offside", "save", "shot_blocked",
                                         "shot_off_target"}

\* A run saved without failure: a foul and its card have rows, a save has none
C18_Witness ==
    /\ ReturnedOk
    /\ db.failed = 0
    /\ Len(db.rows) = 2
    /\ \E t \in 1..ticks.len : HasType(ticks.all[t].events, "save")

\* C19: whichever emits and saves fail, a simulate_match that got past its
\* status check returns Ok(()) after the engine has completed, with every tick
\* emitted on match:minute, every event of a persisted type attempted to be
\* saved and match:full_time emitted.
C19_FailuresDoNotAbort ==
    (cmd.pc = "returned" /\ cmd.result # "Match already completed") =>
      /\ cmd.result = "Ok"
      /\ pc = "done"
      /\ Cardinality(Sent("match:minute")) = ticks.len
      /\ db.attempts = Len(RowsClaimed(1))
      /\ Len(db.rows) = db.attempts - (db.failed - (IF db.status = "completed" THEN 0 ELSE 1))
      /\ Cardinality(Sent("match:full_time")) = 1

\* A returned command whose save_match_result failed
C19_Witness == cmd.pc = "returned" /\ db.status = "scheduled" /\ db.failed = 1

\* C20 as claimed: a regular tick with a goal event of side S reports the
\* ball at (50, 34) and the possession of the conceding side.
C20_GoalTickShowsKickoff ==
    \A s \in Sides :
      (ticks.last.phase \in {"open_play", "attack_home", "attack_away"}
         /\ HasEvent(ticks.last.events, "goal", s)) =>
        /\ ticks.last.ball = [x |-> 50, y |-> 34]
        /\ ticks.last.possession = opponent(s)

\* C20, amended: the tick of a minute with a goal event of side S reports the
\* ball at (50, 34); the possession is the conceding side's when the
\* minute's closing 35% possession roll is made, and the tick reports the
\* possession left by that roll, which is S again when the roll flips it.
C20_GoalTickBallAtCentre ==
    [][(step = "finish" /\ step' = "start" /\ HasEvent(events, "goal", side)) =>
         /\ ticks'.last.events = events
         /\ ticks'.last.ball = [x |-> 50, y |-> 34]
         /\ possession = opponent(side)
         /\ ticks'.last.possession = possession'
         /\ possession' \in {side, opponent(side)}]_vars

\* A tick with a home goal that reports the home side in possession
C20_Witness ==
    /\ HasEvent(ticks.last.events, "goal", "home")
    /\ ticks.last.possession = "home"
    /\ ticks.last.ball = [x |-> 50, y |-> 34]

\* C21: a shot resolution for side S adds exactly 1 to S's shots and leaves
\* exactly one of the outcomes shot_blocked, shot_off_target, goal, save; S's
\* shots_on_target grows by 1 exactly when the outcome is goal or save (and is
\* otherwise unchanged); a corner event stands directly after a shot_blocked
\* event of the same side.  Nothing else in the decision step touches the
\* shot counters.
C21_ShotResolution ==
    [][(step = "decide" /\ step' = "finish") =>
         LET opp == opponent(side)
             outcomes == {i \in 1..Len(events') : events'[i].event_type \in
                            {"shot_blocked", "shot_off_target", "goal", "save"}}
             on_target == \E i \in outcomes : events'[i].event_type \in {"goal", "save"}
             d(s, st) == stats'[s][st] - stats[s][st]
         IN  /\ d(side, "shots") = Cardinality(outcomes)
             /\ Cardinality(outcomes) <= 1
             /\ d(opp, "shots") = 0
             /\ d(side, "shots_on_target") = (IF on_target THEN 1 ELSE 0)
             /\ d(opp, "shots_on_target") = 0
             /\ \A i \in outcomes :
                  events'[i].team = (IF events'[i].event_type = "save" THEN opp ELSE side)
             /\ \A i \in 1..Len(events') :
                  events'[i].event_type = "corner" =>
                    /\ i > 1
                    /\ events'[i - 1].event_type = "shot_blocked"
                    /\ events'[i - 1].team = events'[i].team]_vars

\* The second shot of a side has been resolved as a save, after one that was
\* not on target
C21_Witness ==
    /\ step = "finish"
    /\ HasType(events, "save")
    /\ stats[side].shots = 2
    /\ stats[side].shots_on_target = 1

\* C22: a foul resolution in a minute that side S started in possession
\* leaves exactly one foul event, of the opponent of S, whose primary_player
\* was an available opponent and whose secondary_player an available player
\* of S when the minute was resolved; the opponent's fouls grow by exactly 1
\* and nobody else's.  Beside it stand at most one yellow_card or
\* second_yellow event and at most one red_card event, each of the same side
\* and the same fouler.
C22_FoulResolution ==
    [][(step = "decide" /\ step' = "finish") =>
         LET opp == opponent(side)
             eligible(s) == {Available(s)[i].id : i \in 1..Len(Available(s))}
             d(s) == stats'[s].fouls - stats[s].fouls
             fouls == CountTypes(events', {"foul"})
         IN  /\ d(opp) = fouls
             /\ d(side) = 0
             /\ fouls <= 1
             /\ CountTypes(events', CardTypes) > 0 => fouls = 1
             /\ fouls = 1 =>
                  /\ events'[1].event_type = "foul"
                  /\ events'[1].team = opp
                  /\ events'[1].primary_player \in eligible(opp)
                  /\ events'[1].secondary_player \in eligible(side)
                  /\ CountTypes(events', {"yellow_card", "second_yellow"}) <= 1
                  /\ CountTypes(events', {"red_card"}) <= 1
                  /\ \A i \in 2..Len(events') :
                       /\ events'[i].event_type \in CardTypes
                       /\ events'[i].team = opp
                       /\ events'[i].primary_player = events'[1].primary_player]_vars

\* A foul resolved with a second yellow card and a straight red card at once
C22_Witness ==
    /\ step = "finish"
    /\ Len(events) = 3
    /\ events[1].event_type = "foul"
    /\ events[2].event_type = "second_yellow"
    /\ events[3].event_type = "red_card"

\* C23: in every tick and for each side, yellow_cards is the number of
\* yellow_card events plus the number of second_yellow events of that side in
\* the ticks so far, and red_cards is the number of second_yellow events plus
\* the number of red_card events of that side so far.
C23_CardCounters ==
    ticks.len >= 1 =>
      \A s \in Sides :
        /\ ticks.last.stats[s].yellow_cards = Seen("yellow_card", s) + Seen("second_yellow", s)
        /\ ticks.last.stats[s].red_cards = Seen("second_yellow", s) + Seen("red_card", s)

\* A tick in which one side has a yellow card, a second yellow and a straight
\* red card behind it
C23_Witness ==
    /\ ticks.len >= 1
    /\ \E s \in Sides :
         /\ Seen("yellow_card", s) = 1
         /\ Seen("second_yellow", s) = 1
         /\ Seen("red_card", s) = 1

\* C24: when the tackle branch fires in a minute that side S started in
\* possession, the minute holds exactly one event, a tackle of the opponent
\* of S naming an opponent who was available; the opponent's tackles grow by
\* exactly 1 and nobody else's; possession is the opponent's when the
\* minute's closing possession roll is made, and the tick reports what that
\* roll leaves.
C24_TackleTurnsOver ==
    [][/\ (step = "decide" /\ step' = "finish") =>
            LET opp == opponent(side)
                tackles == CountTypes(events', {"tackle"})
            IN  /\ stats'[opp].tackles - stats[opp].tackles = tackles
                /\ stats'[side].tackles = stats[side].tackles
                /\ tackles <= 1
                /\ tackles = 1 =>
                     /\ Len(events') = 1
                     /\ events'[1].team = opp
                     /\ events'[1].primary_player \in
                          {Available(opp)[i].id : i \in 1..Len(Available(opp))}
                     /\ events'[1].secondary_player = NoPlayer
                     /\ possession' = opp
       /\ (step = "finish" /\ step' = "start" /\ HasType(events, "tackle")) =>
            /\ possession = opponent(side)
            /\ ticks'.last.events = events
            /\ ticks'.last.possession = possession'
            /\ ticks'.last.stats = stats]_vars

\* A tick with a tackle by the home side after which the closing roll gave
\* the ball back to the away side
C24_Witness ==
    /\ HasEvent(ticks.last.events, "tackle", "home")
    /\ ticks.last.possession = "away"
    /\ ticks.last.stats.home.tackles = 1

\* C25: an offside happens only with the ball in the attacking third of the
\* side S that started the minute in possession: the minute then holds
\* exactly one event, an offside of S placed at the ball, with x > 70 for
\* home and x < 30 for away, naming no player; S's offsides grow by exactly 1
\* and nobody else's; possession is the defending side's when the minute's
\* closing possession roll is made.
C25_OffsideInAttackingThird ==
    [][/\ (step = "decide" /\ step' = "finish") =>
            LET opp == opponent(side)
                offsides == CountTypes(events', {"offside"})
            IN  /\ stats'[side].offsides - stats[side].offsides = offsides
                /\ stats'[opp].offsides = stats[opp].offsides
                /\ offsides <= 1
                /\ offsides = 1 =>
                     /\ Len(events') = 1
                     /\ events'[1].team = side
                     /\ events'[1].primary_player = NoPlayer
                     /\ events'[1].secondary_player = NoPlayer
                     /\ events'[1].x = ball.x
                     /\ IF side = "home" THEN events'[1].x > 70 ELSE events'[1].x < 30
                     /\ possession' = opp
       /\ (step = "finish" /\ step' = "start" /\ HasType(events, "offside")) =>
            /\ possession = opponent(side)
            /\ ticks'.last.events = events
            /\ ticks'.last.stats = stats]_vars

\* A tick with an offside of the away side
C25_Witness ==
    /\ HasEvent(ticks.last.events, "offside", "away")
    /\ ticks.last.stats.away.offsides = 1

\* C26: at every moment of a run, for either side and any skill, the players
\* pick_player can return and the players pick_weighted_player can return
\* are the same set: the players among the first 11 entries of the side's
\* squad that are not marked sent off.  Every weight is at least 1.0.
C26_SelectorsReturnEligible ==
    \A s \in Sides :
      LET eligible == {p \in Range(Take(Squad(s), 11)) : ~MapGet(player_sent_off, p.id, FALSE)}
      IN  /\ pick_player(s) = eligible
          /\ \A attr \in AttrNames :
               /\ pick_weighted_player(s, attr) = eligible
               /\ \A p \in eligible : Weight(p, attr) >= Unit

\* A foul has been resolved with two of the away side's first eleven sent
\* off: nine of its thirteen players can be selected
C26_Witness ==
    /\ step = "finish"
    /\ HasEvent(events, "foul", "away")
    /\ Cardinality({i \in 1..11 : MapGet(player_sent_off, away_squad[i].id, FALSE)}) = 2
    /\ Cardinality(pick_player("away")) = 9
    /\ Cardinality(pick_weighted_player("away", "aggression")) = 9

\* C27: at every moment of a run and in every tick pushed, the ball lies on
\* the pitch, 0 <= x <= 100 and 0 <= y <= 68; so does every event of the
\* minute being resolved and of the last tick.
C27_BallOnThePitch ==
    LET on_pitch(p) == 0 <= p.x /\ p.x <= 100 /\ 0 <= p.y /\ p.y <= 68
    IN  /\ on_pitch(ball)
        /\ ticks.len >= 1 => on_pitch(ticks.last.ball)
        /\ \A i \in 1..Len(events) : on_pitch(events[i])
        /\ \A i \in 1..Len(ticks.last.events) : on_pitch(ticks.last.events[i])

\* A tick whose ball lies in a corner of the pitch, with a tackle placed there
C27_Witness ==
    /\ ticks.len >= 1
    /\ ticks.last.ball \in {[x |-> 0, y |-> 0], [x |-> 100, y |-> 68]}
    /\ HasType(ticks.last.events, "tackle")
    /\ ticks.last.events[1].x = ticks.last.ball.x
    /\ ticks.last.events[1].y = ticks.last.ball.y

\* C28: the zone of a regular tick follows from the tick's ball.x and
\* possession: x < 33 is def_home for home and att_away for away, x > 67 is
\* att_home for home and def_away for away, anything else is mid.  The zone
\* is always one of these five labels, and a marker tick reports mid with the
\* ball at (50, 34).
C28_ZoneOfBallAndPossession ==
    /\ zone \in {"def_home", "att_home", "def_away", "att_away", "mid"}
    /\ ticks.len >= 1 =>
         LET t == ticks.last
         IN  /\ t.zone \in {"def_home", "att_home", "def_away", "att_away", "mid"}
             /\ t.phase \in {"half_time", "full_time"} =>
                  t.zone = "mid" /\ t.ball = [x |-> 50, y |-> 34]
             /\ t.phase \notin {"half_time", "full_time"} =>
                  /\ (t.ball.x < 33 /\ t.possession = "home") => t.zone = "def_home"
                  /\ (t.ball.x < 33 /\ t.possession = "away") => t.zone = "att_away"
                  /\ (t.ball.x > 67 /\ t.possession = "home") => t.zone = "att_home"
                  /\ (t.ball.x > 67 /\ t.possession = "away") => t.zone = "def_away"
                  /\ (33 <= t.ball.x /\ t.ball.x <= 67) => t.zone = "mid"

\* A regular tick with the ball beyond x = 67 and the away side in possession
C28_Witness ==
    /\ ticks.len >= 1
    /\ ticks.last.phase = "open_play"
    /\ ticks.last.ball.x > 67
    /\ ticks.last.possession = "away"
    /\ ticks.last.zone = "def_away"

\* C29: the phase of a regular tick is attack_<S>, S being the side in
\* possession when the minute began, exactly when the tick's events include a
\* goal, a shot_blocked or a save; every other regular tick, one with only a
\* shot_off_target included, has phase open_play.  In a tick of phase
\* attack_<S> the goal or blocked shot is S's and the save is the opponent's.
C29_PhaseOfRegularTick ==
    [][(step = "finish" /\ step' = "start") =>
         LET t == ticks'.last
             attack == \E i \in 1..Len(t.events) :
                         t.events[i].event_type \in {"goal", "shot_blocked", "save"}
         IN  /\ t.events = events
             /\ attack => t.phase = (IF side = "home" THEN "attack_home" ELSE "attack_away")
             /\ ~attack => t.phase = "open_play"
             /\ \A i \in 1..Len(t.events) :
                  /\ t.events[i].event_type \in {"goal", "shot_blocked"} =>
                       t.events[i].team = side
                  /\ t.events[i].event_type = "save" => t.events[i].team = opponent(side)]_vars

\* A tick of phase attack_away that holds a save by the home goalkeeper
C29_Witness ==
    /\ ticks.last.phase = "attack_away"
    /\ HasEvent(ticks.last.events, "save", "home")

\* C30: in every regular minute the passes of exactly one side grow, by 3 to
\* 8, and the other side's stay: the side in possession when the minute
\* begins, which is home for the first tick, away for the tick after the
\* half_time tick whoever held the ball before it, and otherwise the
\* possession the previous tick reports.
C30_PassesGoToTheSideInPossession ==
    [][(step = "finish" /\ step' = "start") =>
         LET t == ticks'.last
             before(s) == IF ticks.len = 0 THEN 0 ELSE ticks.last.stats[s].passes
             starting == IF ticks.len = 0 THEN "home"
                         ELSE IF ticks.last.phase = "half_time" THEN "away"
                         ELSE ticks.last.possession
         IN  /\ t.stats[starting].passes - before(starting) \in 3..8
             /\ t.stats[opponent(starting)].passes = before(opponent(starting))
             /\ ticks.len = 0 <=> t.minute = 1]_vars

\* The first tick of the second half, after a first half in which every tick
\* reported the home side in possession: the away side has made its passes
C30_Witness ==
    /\ ticks.len >= 2
    /\ ticks.log[ticks.len - 1][2] = "half_time"
    /\ ticks.home_poss >= ticks.len - 1
    /\ ticks.last.stats.away.passes = 8

\* C31: on the final tick the home possession_pct is 100 * H / N rounded to
\* the nearest whole number (a half rounds up), N being the number of ticks of
\* the sequence, markers included, and H the number of them whose possession
\* is home; the away possession_pct is 100 minus it.  Every tick before the
\* final overwrite carries the initial pair (50, 50).
C31_FinalPossessionPct ==
    /\ pc = "done" =>
         LET home == ticks.last.stats.home.possession_pct
             N == ticks.len
             H == ticks.home_poss
         IN  /\ ticks.last.phase = "full_time"
             /\ 2 * N * home <= 200 * H + N
             /\ 200 * H + N < 2 * N * (home + 1)
             /\ ticks.last.stats.away.possession_pct = 100 - home
             /\ stats.home.possession_pct = home
             /\ stats.away.possession_pct = 100 - home
    /\ (pc # "done" /\ ticks.len >= 1) =>
         /\ ticks.last.stats.home.possession_pct = 50
         /\ ticks.last.stats.away.possession_pct = 50

\* A completed run of 8 ticks, 3 of them with the home side in possession:
\* 37.5 is reported as 38 and 62
C31_Witness ==
    /\ pc = "done"
    /\ ticks.len = 8
    /\ ticks.home_poss = 3
    /\ ticks.last.stats.home.possession_pct = 38
    /\ ticks.last.stats.away.possession_pct = 62

\* C32: a starter's fatigue changes in a simulated minute exactly when the
\* minute is greater than 60.  Through minute 60 every player's fatigue is 0;
\* in every minute after 60 the fatigue of each of the first 11 players of
\* either squad grows strictly while it is below the cap of 1.0 and never
\* passes the cap; nobody else's fatigue changes, and no other step of the
\* run touches fatigue.
C32_FatigueOnlyAfterMinute60 ==
    [][LET f(pf, p) == MapGet(pf, p, 0)
           starters == {home_squad[i].id : i \in 1..Min(11, Len(home_squad))}
                         \cup {away_squad[i].id : i \in 1..Min(11, Len(away_squad))}
       IN  IF step = "start" /\ step' = "decide"
           THEN /\ minute <= 60 =>
                     \A p \in PlayerIds : f(player_fatigue, p) = 0 /\ f(player_fatigue', p) = 0
                /\ minute > 60 =>
                     /\ \A p \in starters :
                          /\ f(player_fatigue, p) < Unit =>
                               f(player_fatigue', p) > f(player_fatigue, p)
                          /\ f(player_fatigue', p) <= Unit
                     /\ \A p \in PlayerIds \ starters :
                          f(player_fatigue', p) = f(player_fatigue, p)
           ELSE player_fatigue' = player_fatigue]_vars

\* Minute 61 has been started: a starter is tired, a substitute is not
C32_Witness ==
    /\ minute = 61
    /\ step = "decide"
    /\ MapGet(player_fatigue, 1, 0) > 0
    /\ MapGet(player_fatigue, 111, 0) > 0
    /\ MapGet(player_fatigue, 12, 0) = 0

\* C33: in every tick and for each side, the corners counter equals the
\* number of corner events of that side in the ticks so far.
C33_CornersAreEvents ==
    ticks.len >= 1 =>
      \A s \in Sides : ticks.last.stats[s].corners = Seen("corner", s)

\* C34: in every reachable state and for each side, the red_cards counter
\* equals the number of that side's players marked sent off.
C34_RedCardsCountDismissals ==
    \A s \in Sides :
      stats[s].red_cards =
        Cardinality({i \in 1..Len(Squad(s)) : MapGet(player_sent_off, Squad(s)[i].id, FALSE)})

\* C35: in every tick and for each side S with opponent O, shots(S) is the
\* number of S's shot_blocked events plus S's shot_off_target events plus
\* shots_on_target(S); shots_on_target(S) is score(S) plus saves(O); and
\* saves(O) is the number of save events of team O so far.
C35_ShotAccounting ==
    ticks.len >= 1 =>
      \A S \in Sides :
        LET O == IF S = "home" THEN "away" ELSE "home"
            t == ticks.last
        IN  /\ t.stats[S].shots = Seen("shot_blocked", S) + Seen("shot_off_target", S)
                                     + t.stats[S].shots_on_target
            /\ t.stats[S].shots_on_target = t.score[S] + t.stats[O].saves
            /\ t.stats[O].saves = Seen("save", O)

\* A tick by which the away side has had two shots on target, one scored and
\* one saved
C35_Witness ==
    /\ ticks.len >= 1
    /\ ticks.last.stats.away.shots = 2
    /\ ticks.last.stats.away.shots_on_target = 2
    /\ ticks.last.score.away = 1
    /\ ticks.last.stats.home.saves = 1

\* C36: no two regular ticks of one run carry the same minute: the regular
\* tick pushed last has a minute that no earlier regular tick has.
C36_MinutesAreUnique ==
    \A i, j \in 1..Len(ticks.log) :
      (i < j /\ j = Len(ticks.log) /\ ticks.log[i][2] = "minute" /\ ticks.log[j][2] = "minute")
        => ticks.log[i][1] # ticks.log[j][1]

\* C37: every player named as primary_player or secondary_player of an event
\* of the minute being resolved or of the last tick is one of the first 11
\* entries of a squad.
C37_NamedPlayersAreStarters ==
    LET first_eleven == {home_squad[i].id : i \in 1..Min(11, Len(home_squad))}
                          \cup {away_squad[i].id : i \in 1..Min(11, Len(away_squad))}
        named(evs) == ({evs[i].primary_player : i \in 1..Len(evs)}
                         \cup {evs[i].secondary_player : i \in 1..Len(evs)}) \ {NoPlayer}
    IN  /\ named(events) \subseteq first_eleven
        /\ named(ticks.last.events) \subseteq first_eleven

\* C38: of two invocations of simulate_match on one match with no reset
\* between them, whatever their interleaving, at least one returns "Match
\* already completed", and the stored event rows hold no row twice.
C38_OneInvocationPersists ==
    (first_run.run = 3 /\ cmd.pc = "returned") =>
      /\ "Match already completed" \in {cmd.result, first_run.cmd.result}
      /\ \A i, j \in 1..Len(db.rows) : i < j => db.rows[i] # db.rows[j]

====
